---- MODULE Spec2Model ----
(***************************************************************************)
(* Verification model of mwareeth: the heir state machine                  *)
(* (mwareeth/heir_builder.py) and the relationship resolver                *)
(* (mwareeth/entities/family_tree.py).                                     *)
(***************************************************************************)
EXTENDS Integers, Sequences, FiniteSets, TLC

(***************************************************************************)
(* Bounds of the exploration.                                              *)
(***************************************************************************)
\* longest lineage handed to deduce_heir_type
MaxLineage == 5

\* Person objects created before a FamilyTree is constructed
MaxFamily == 4

\* father, mother and spouse links set by the Person API before resolution
MaxLinks == 3

\* Person objects of a pedigree that grows by one person per link
MaxKin == 5

\* Person objects of a single line of kin, each linked to the one before
MaxLine == 6

\* Person objects of a family of descendants of the focal person
MaxDescent == 4

\* longest lineage of each of two deduce_heir_type calls that run interleaved
MaxPair == 2

\* Python's None, where a string is expected
None == "None"

\* Python's None, where a Person is expected
NoPerson == 0

(***************************************************************************)
(* Enumerations.                                                           *)
(***************************************************************************)
\* entities/relationship.py: class RelationshipType
ANCESTOR_RELATIONSHIPS == {"FATHER", "GRANDFATHER", "MOTHER", "GRANDMOTHER"}

DESCENDANT_RELATIONSHIPS == {"SON", "DAUGHTER", "GRANDSON", "GRANDDAUGHTER"}

SiblingTypes ==
    {"BROTHER_FULL", "BROTHER_PARENTAL", "BROTHER_MATERNAL",
     "SISTER_FULL", "SISTER_PARENTAL", "SISTER_MATERNAL"}

UncleAuntTypes ==
    {"PARENTAL_UNCLE_FULL", "PARENTAL_UNCLE_PARENTAL", "PARENTAL_UNCLE_MATERNAL",
     "PARENTAL_AUNT_FULL", "PARENTAL_AUNT_PARENTAL", "PARENTAL_AUNT_MATERNAL",
     "MATERNAL_UNCLE_FULL", "MATERNAL_UNCLE_PARENTAL", "MATERNAL_UNCLE_MATERNAL",
     "MATERNAL_AUNT_FULL", "MATERNAL_AUNT_PARENTAL", "MATERNAL_AUNT_MATERNAL"}

NephewNieceTypes == {"NEPHEW", "NIECE"}

RelationshipType ==
    {"SELF"} \cup ANCESTOR_RELATIONSHIPS \cup SiblingTypes \cup UncleAuntTypes
    \cup {"COUSIN"} \cup NephewNieceTypes \cup DESCENDANT_RELATIONSHIPS
    \cup {"HUSBAND", "WIFE"}

\* entities/heir.py: class HeirType
HeirType ==
    {"HUSBAND", "WIFE", "SON", "DAUGHTER", "FATHER", "MOTHER",
     "BROTHER_FULL", "BROTHER_PARENTAL", "BROTHER_MATERNAL",
     "SISTER_FULL", "SISTER_PARENTAL", "SISTER_MATERNAL",
     "NEPHEW_FULL", "NEPHEW_PARENTAL",
     "UNCLE_FULL", "UNCLE_PARENTAL", "SON_UNCLE_FULL", "SON_UNCLE_PARENTAL",
     "UTERINE", "STRANGER", "SELF"}

\* the member names of HeirType, character by character
HeirTypeName ==
       "HUSBAND" :> <<"H", "U", "S", "B", "A", "N", "D">>
    @@ "WIFE" :> <<"W", "I", "F", "E">>
    @@ "SON" :> <<"S", "O", "N">>
    @@ "DAUGHTER" :> <<"D", "A", "U", "G", "H", "T", "E", "R">>
    @@ "FATHER" :> <<"F", "A", "T", "H", "E", "R">>
    @@ "MOTHER" :> <<"M", "O", "T", "H", "E", "R">>
    @@ "BROTHER_FULL" :> <<"B", "R", "O", "T", "H", "E", "R", "_", "F", "U", "L", "L">>
    @@ "BROTHER_PARENTAL" :> <<"B", "R", "O", "T", "H", "E", "R", "_", "P", "A", "R", "E", "N", "T", "A", "L">>
    @@ "BROTHER_MATERNAL" :> <<"B", "R", "O", "T", "H", "E", "R", "_", "M", "A", "T", "E", "R", "N", "A", "L">>
    @@ "SISTER_FULL" :> <<"S", "I", "S", "T", "E", "R", "_", "F", "U", "L", "L">>
    @@ "SISTER_PARENTAL" :> <<"S", "I", "S", "T", "E", "R", "_", "P", "A", "R", "E", "N", "T", "A", "L">>
    @@ "SISTER_MATERNAL" :> <<"S", "I", "S", "T", "E", "R", "_", "M", "A", "T", "E", "R", "N", "A", "L">>
    @@ "NEPHEW_FULL" :> <<"N", "E", "P", "H", "E", "W", "_", "F", "U", "L", "L">>
    @@ "NEPHEW_PARENTAL" :> <<"N", "E", "P", "H", "E", "W", "_", "P", "A", "R", "E", "N", "T", "A", "L">>
    @@ "UNCLE_FULL" :> <<"U", "N", "C", "L", "E", "_", "F", "U", "L", "L">>
    @@ "UNCLE_PARENTAL" :> <<"U", "N", "C", "L", "E", "_", "P", "A", "R", "E", "N", "T", "A", "L">>
    @@ "SON_UNCLE_FULL" :> <<"S", "O", "N", "_", "U", "N", "C", "L", "E", "_", "F", "U", "L", "L">>
    @@ "SON_UNCLE_PARENTAL" :> <<"S", "O", "N", "_", "U", "N", "C", "L", "E", "_", "P", "A", "R", "E", "N", "T", "A", "L">>
    @@ "UTERINE" :> <<"U", "T", "E", "R", "I", "N", "E">>
    @@ "STRANGER" :> <<"S", "T", "R", "A", "N", "G", "E", "R">>
    @@ "SELF" :> <<"S", "E", "L", "F">>

\* entities/heir.py: Heir.is_fardh
IsFardh(heir_type) ==
    heir_type \in {"HUSBAND", "WIFE", "FATHER", "MOTHER", "DAUGHTER",
                   "SISTER_FULL", "SISTER_PARENTAL", "SISTER_MATERNAL",
                   "BROTHER_MATERNAL"}

\* the nephews and the uncles' sons counted as residuary heirs
IsTaasib_WithNephews(heir_type) ==
    heir_type \in {"FATHER", "SON", "BROTHER_FULL", "BROTHER_PARENTAL",
                   "UNCLE_FULL", "UNCLE_PARENTAL", "NEPHEW_FULL", "NEPHEW_PARENTAL",
                   "SON_UNCLE_FULL", "SON_UNCLE_PARENTAL"}

\* entities/heir.py: Heir.is_taasib
IsTaasib(heir_type) ==
    heir_type \in {"FATHER", "SON", "BROTHER_FULL", "BROTHER_PARENTAL",
                   "UNCLE_FULL", "UNCLE_PARENTAL"}

\* entities/heir.py: Heir.is_uterine
IsUterine(heir_type) == heir_type = "UTERINE"

\* entities/heir.py: Heir.is_stranger
IsStranger(heir_type) == heir_type = "STRANGER"

(***************************************************************************)
(* Strings as sequences of characters: str.upper, str.replace,             *)
(* str.capitalize.                                                         *)
(***************************************************************************)
UpperAlpha ==
    <<"A", "B", "C", "D", "E", "F", "G", "H", "I", "J", "K", "L", "M",
      "N", "O", "P", "Q", "R", "S", "T", "U", "V", "W", "X", "Y", "Z">>

LowerAlpha ==
    <<"a", "b", "c", "d", "e", "f", "g", "h", "i", "j", "k", "l", "m",
      "n", "o", "p", "q", "r", "s", "t", "u", "v", "w", "x", "y", "z">>

CharUpper(c) ==
    IF \E i \in DOMAIN LowerAlpha : LowerAlpha[i] = c
    THEN UpperAlpha[CHOOSE i \in DOMAIN LowerAlpha : LowerAlpha[i] = c]
    ELSE c

CharLower(c) ==
    IF \E i \in DOMAIN UpperAlpha : UpperAlpha[i] = c
    THEN LowerAlpha[CHOOSE i \in DOMAIN UpperAlpha : UpperAlpha[i] = c]
    ELSE c

StrUpper(s) == [i \in DOMAIN s |-> CharUpper(s[i])]

StrReplace(s, old, new) == [i \in DOMAIN s |-> IF s[i] = old THEN new ELSE s[i]]

StrCapitalize(s) ==
    [i \in DOMAIN s |-> IF i = 1 THEN CharUpper(s[i]) ELSE CharLower(s[i])]

(***************************************************************************)
(* HeirStateMachine: the declared transitions, as <<source, event, target>>.*)
(***************************************************************************)
\* FINAL_STATES without STRANGER
FINAL_STATES_NoStranger == {"HUSBAND", "WIFE"}

FINAL_STATES == {"HUSBAND", "WIFE", "STRANGER"}

NON_FINAL_STATES == HeirType \ FINAL_STATES

\* the display name the state machine library derives from a state's id
StateName(id) == StrCapitalize(StrReplace(HeirTypeName[id], "_", " "))

\* the maternal brother of the father is also taken for a parental uncle
InitialTransitions_TwoUncleTargets ==
    {<<"SELF", e, e>> : e \in {"HUSBAND", "WIFE", "FATHER", "MOTHER", "SON", "DAUGHTER"}}
    \cup {<<"SELF", e, e>> : e \in SiblingTypes}
    \cup {<<"SELF", "PARENTAL_UNCLE_FULL", "UNCLE_FULL">>,
          <<"SELF", "PARENTAL_UNCLE_PARENTAL", "UNCLE_PARENTAL">>,
          <<"SELF", "PARENTAL_UNCLE_MATERNAL", "UNCLE_PARENTAL">>}
    \cup {<<"SELF", e, "UTERINE">> :
            e \in UncleAuntTypes \ {"PARENTAL_UNCLE_FULL", "PARENTAL_UNCLE_PARENTAL"}}

InitialTransitions ==
    {<<"SELF", e, e>> : e \in {"HUSBAND", "WIFE", "FATHER", "MOTHER", "SON", "DAUGHTER"}}
    \cup {<<"SELF", e, e>> : e \in SiblingTypes}
    \cup {<<"SELF", "PARENTAL_UNCLE_FULL", "UNCLE_FULL">>,
          <<"SELF", "PARENTAL_UNCLE_PARENTAL", "UNCLE_PARENTAL">>}
    \cup {<<"SELF", e, "UTERINE">> :
            e \in UncleAuntTypes \ {"PARENTAL_UNCLE_FULL", "PARENTAL_UNCLE_PARENTAL"}}

\* a daughter's son keeps the standing of a son
DescendantTransitions_DaughterSon ==
    {<<"SON", "SON", "SON">>, <<"SON", "DAUGHTER", "DAUGHTER">>,
     <<"DAUGHTER", "SON", "SON">>, <<"DAUGHTER", "DAUGHTER", "UTERINE">>}

DescendantTransitions ==
    {<<"SON", "SON", "SON">>, <<"SON", "DAUGHTER", "DAUGHTER">>,
     <<"DAUGHTER", "SON", "UTERINE">>, <<"DAUGHTER", "DAUGHTER", "UTERINE">>}

\* a mother's father is classified as a father
AncestorTransitions_MotherFather ==
    {<<"FATHER", "FATHER", "FATHER">>, <<"FATHER", "MOTHER", "MOTHER">>,
     <<"MOTHER", "MOTHER", "MOTHER">>, <<"MOTHER", "FATHER", "FATHER">>}

AncestorTransitions ==
    {<<"FATHER", "FATHER", "FATHER">>, <<"FATHER", "MOTHER", "MOTHER">>,
     <<"MOTHER", "MOTHER", "MOTHER">>, <<"MOTHER", "FATHER", "UTERINE">>}

\* a maternal brother's son is classified as a nephew
SiblingTransitions_MaternalNephew ==
    {<<"BROTHER_FULL", "SON", "NEPHEW_FULL">>,
     <<"BROTHER_FULL", "DAUGHTER", "UTERINE">>,
     <<"BROTHER_PARENTAL", "SON", "NEPHEW_PARENTAL">>,
     <<"BROTHER_PARENTAL", "DAUGHTER", "UTERINE">>,
     <<"BROTHER_MATERNAL", "SON", "NEPHEW_PARENTAL">>,
     <<"BROTHER_MATERNAL", "DAUGHTER", "UTERINE">>,
     <<"NEPHEW_PARENTAL", "SON", "NEPHEW_PARENTAL">>,
     <<"NEPHEW_PARENTAL", "DAUGHTER", "UTERINE">>}
    \cup {<<s, e, "UTERINE">> :
            s \in {"SISTER_FULL", "SISTER_PARENTAL", "SISTER_MATERNAL"},
            e \in {"SON", "DAUGHTER"}}

SiblingTransitions ==
    {<<"BROTHER_FULL", "SON", "NEPHEW_FULL">>,
     <<"BROTHER_FULL", "DAUGHTER", "UTERINE">>,
     <<"BROTHER_PARENTAL", "SON", "NEPHEW_PARENTAL">>,
     <<"BROTHER_PARENTAL", "DAUGHTER", "UTERINE">>,
     <<"BROTHER_MATERNAL", "SON", "UTERINE">>,
     <<"BROTHER_MATERNAL", "DAUGHTER", "UTERINE">>,
     <<"NEPHEW_PARENTAL", "SON", "NEPHEW_PARENTAL">>,
     <<"NEPHEW_PARENTAL", "DAUGHTER", "UTERINE">>}
    \cup {<<s, e, "UTERINE">> :
            s \in {"SISTER_FULL", "SISTER_PARENTAL", "SISTER_MATERNAL"},
            e \in {"SON", "DAUGHTER"}}

\* the MOTHER state treats the full paternal uncle as the FATHER state does
UncleTransitions_MotherUncle ==
    {<<"UNCLE_FULL", "SON", "SON_UNCLE_FULL">>,
     <<"UNCLE_PARENTAL", "SON", "SON_UNCLE_PARENTAL">>,
     <<"UNCLE_FULL", "DAUGHTER", "UTERINE">>,
     <<"UNCLE_PARENTAL", "DAUGHTER", "UTERINE">>,
     <<"SON_UNCLE_FULL", "SON", "SON_UNCLE_FULL">>,
     <<"SON_UNCLE_PARENTAL", "SON", "SON_UNCLE_PARENTAL">>,
     <<"SON_UNCLE_FULL", "DAUGHTER", "UTERINE">>,
     <<"SON_UNCLE_PARENTAL", "DAUGHTER", "UTERINE">>,
     <<"FATHER", "PARENTAL_UNCLE_FULL", "UNCLE_FULL">>,
     <<"FATHER", "PARENTAL_UNCLE_PARENTAL", "UNCLE_PARENTAL">>,
     <<"MOTHER", "PARENTAL_UNCLE_FULL", "UNCLE_FULL">>}
    \cup {<<"FATHER", e, "UTERINE">> :
            e \in UncleAuntTypes \ {"PARENTAL_UNCLE_FULL", "PARENTAL_UNCLE_PARENTAL"}}
    \cup {<<"MOTHER", e, "UTERINE">> : e \in UncleAuntTypes \ {"PARENTAL_UNCLE_FULL"}}

UncleTransitions ==
    {<<"UNCLE_FULL", "SON", "SON_UNCLE_FULL">>,
     <<"UNCLE_PARENTAL", "SON", "SON_UNCLE_PARENTAL">>,
     <<"UNCLE_FULL", "DAUGHTER", "UTERINE">>,
     <<"UNCLE_PARENTAL", "DAUGHTER", "UTERINE">>,
     <<"SON_UNCLE_FULL", "SON", "SON_UNCLE_FULL">>,
     <<"SON_UNCLE_PARENTAL", "SON", "SON_UNCLE_PARENTAL">>,
     <<"SON_UNCLE_FULL", "DAUGHTER", "UTERINE">>,
     <<"SON_UNCLE_PARENTAL", "DAUGHTER", "UTERINE">>,
     <<"FATHER", "PARENTAL_UNCLE_FULL", "UNCLE_FULL">>,
     <<"FATHER", "PARENTAL_UNCLE_PARENTAL", "UNCLE_PARENTAL">>}
    \cup {<<"FATHER", e, "UTERINE">> :
            e \in UncleAuntTypes \ {"PARENTAL_UNCLE_FULL", "PARENTAL_UNCLE_PARENTAL"}}
    \cup {<<"MOTHER", e, "UTERINE">> : e \in UncleAuntTypes}

\* a MOTHER token leads out of UTERINE
UterineTransitions_MotherRestores ==
    {<<"UTERINE", e, "UTERINE">> : e \in {"FATHER", "SON", "DAUGHTER"}}
    \cup {<<"UTERINE", "MOTHER", "MOTHER">>}

UterineTransitions ==
    {<<"UTERINE", e, "UTERINE">> : e \in {"FATHER", "MOTHER", "SON", "DAUGHTER"}}

StrangerTransitions ==
    {<<"SELF", "SELF", "STRANGER">>}
    \cup {<<s, "SELF", "STRANGER">> : s \in NON_FINAL_STATES}

\* a full brother's son's children continue as a parental brother's do
Transitions_NephewFullContinues ==
    InitialTransitions \cup DescendantTransitions \cup AncestorTransitions
    \cup SiblingTransitions \cup UncleTransitions \cup UterineTransitions
    \cup StrangerTransitions
    \cup {<<"NEPHEW_FULL", "SON", "NEPHEW_FULL">>, <<"NEPHEW_FULL", "DAUGHTER", "UTERINE">>}

Transitions ==
    InitialTransitions \cup DescendantTransitions \cup AncestorTransitions
    \cup SiblingTransitions \cup UncleTransitions \cup UterineTransitions
    \cup StrangerTransitions

\* the targets of the event from any source state, the current one ignored
Targets_AnySource(state, event) == {t[3] : t \in {u \in Transitions : u[2] = event}}

\* the targets the machine may move to from state on event
Targets(state, event) == {t[3] : t \in {u \in Transitions : u[1] = state /\ u[2] = event}}

\* HeirStateMachine.current_heir_type; None stands for the KeyError of the lookup
current_heir_type(state) ==
    LET key == StrReplace(StrUpper(StateName(state)), " ", "_")
    IN  IF \E h \in HeirType : HeirTypeName[h] = key
        THEN CHOOSE h \in HeirType : HeirTypeName[h] = key
        ELSE None

\* the state of a fresh machine after the first k tokens, or the exception
\* that one of them raised
RECURSIVE StateAfter(_, _)
StateAfter(tokens, k) ==
    IF k = 0 THEN "SELF"
    ELSE LET state == StateAfter(tokens, k - 1)
         IN  IF state = "TransitionNotAllowed" THEN state
             ELSE IF Targets(state, tokens[k]) = {} THEN "TransitionNotAllowed"
             ELSE CHOOSE target \in Targets(state, tokens[k]) : TRUE

\* deduce_heir_type(lineage) run alone: the HeirType returned, or the
\* exception raised
deduce_heir_type(tokens) ==
    LET state == StateAfter(tokens, Len(tokens))
    IN  IF state = "TransitionNotAllowed" THEN state ELSE current_heir_type(state)

(***************************************************************************)
(* Persons (entities/person.py).                                           *)
(***************************************************************************)
\* the ids of the Person objects
Persons ==
    1..(CHOOSE n \in {MaxFamily, MaxKin, MaxLine, MaxDescent} :
            \A m \in {MaxFamily, MaxKin, MaxLine, MaxDescent} : m <= n)

Gender == {"UNKNOWN", "MALE", "FEMALE"}

LineageType == {"FULL", "PARENTAL", "MATERNAL"}

LineageOperation ==
    {"PUSH_RELATIONSHIP", "POP_THEN_PUSH_RELATIONSHIP", "PUSH_PARENTAL_RELATIONSHIP"}

\* entities/family_tree.py: the sibling classification table
ANCESTORS_SIBLINGS_RELATIONSHIPS ==
       <<"SELF", "FULL", "MALE">> :> [relationship_type |-> "BROTHER_FULL", lineage_operation |-> "PUSH_RELATIONSHIP"]
    @@ <<"SELF", "FULL", "FEMALE">> :> [relationship_type |-> "SISTER_FULL", lineage_operation |-> "PUSH_RELATIONSHIP"]
    @@ <<"SELF", "PARENTAL", "MALE">> :> [relationship_type |-> "BROTHER_PARENTAL", lineage_operation |-> "PUSH_RELATIONSHIP"]
    @@ <<"SELF", "PARENTAL", "FEMALE">> :> [relationship_type |-> "SISTER_PARENTAL", lineage_operation |-> "PUSH_RELATIONSHIP"]
    @@ <<"SELF", "MATERNAL", "MALE">> :> [relationship_type |-> "BROTHER_MATERNAL", lineage_operation |-> "PUSH_RELATIONSHIP"]
    @@ <<"SELF", "MATERNAL", "FEMALE">> :> [relationship_type |-> "SISTER_MATERNAL", lineage_operation |-> "PUSH_RELATIONSHIP"]
    @@ <<"FATHER", "FULL", "MALE">> :> [relationship_type |-> "PARENTAL_UNCLE_FULL", lineage_operation |-> "POP_THEN_PUSH_RELATIONSHIP"]
    @@ <<"FATHER", "FULL", "FEMALE">> :> [relationship_type |-> "PARENTAL_AUNT_FULL", lineage_operation |-> "POP_THEN_PUSH_RELATIONSHIP"]
    @@ <<"FATHER", "PARENTAL", "MALE">> :> [relationship_type |-> "PARENTAL_UNCLE_PARENTAL", lineage_operation |-> "POP_THEN_PUSH_RELATIONSHIP"]
    @@ <<"FATHER", "PARENTAL", "FEMALE">> :> [relationship_type |-> "PARENTAL_AUNT_PARENTAL", lineage_operation |-> "POP_THEN_PUSH_RELATIONSHIP"]
    @@ <<"FATHER", "MATERNAL", "MALE">> :> [relationship_type |-> "PARENTAL_UNCLE_MATERNAL", lineage_operation |-> "POP_THEN_PUSH_RELATIONSHIP"]
    @@ <<"FATHER", "MATERNAL", "FEMALE">> :> [relationship_type |-> "PARENTAL_AUNT_MATERNAL", lineage_operation |-> "POP_THEN_PUSH_RELATIONSHIP"]
    @@ <<"MOTHER", "FULL", "MALE">> :> [relationship_type |-> "MATERNAL_UNCLE_FULL", lineage_operation |-> "POP_THEN_PUSH_RELATIONSHIP"]
    @@ <<"MOTHER", "FULL", "FEMALE">> :> [relationship_type |-> "MATERNAL_AUNT_FULL", lineage_operation |-> "POP_THEN_PUSH_RELATIONSHIP"]
    @@ <<"MOTHER", "PARENTAL", "MALE">> :> [relationship_type |-> "MATERNAL_UNCLE_PARENTAL", lineage_operation |-> "POP_THEN_PUSH_RELATIONSHIP"]
    @@ <<"MOTHER", "PARENTAL", "FEMALE">> :> [relationship_type |-> "MATERNAL_AUNT_PARENTAL", lineage_operation |-> "POP_THEN_PUSH_RELATIONSHIP"]
    @@ <<"MOTHER", "MATERNAL", "MALE">> :> [relationship_type |-> "MATERNAL_UNCLE_MATERNAL", lineage_operation |-> "POP_THEN_PUSH_RELATIONSHIP"]
    @@ <<"MOTHER", "MATERNAL", "FEMALE">> :> [relationship_type |-> "MATERNAL_AUNT_MATERNAL", lineage_operation |-> "POP_THEN_PUSH_RELATIONSHIP"]
    @@ <<"GRANDFATHER", "FULL", "MALE">> :> [relationship_type |-> "PARENTAL_UNCLE_FULL", lineage_operation |-> "POP_THEN_PUSH_RELATIONSHIP"]
    @@ <<"GRANDFATHER", "FULL", "FEMALE">> :> [relationship_type |-> "PARENTAL_AUNT_FULL", lineage_operation |-> "POP_THEN_PUSH_RELATIONSHIP"]
    @@ <<"GRANDFATHER", "PARENTAL", "MALE">> :> [relationship_type |-> "PARENTAL_UNCLE_PARENTAL", lineage_operation |-> "POP_THEN_PUSH_RELATIONSHIP"]
    @@ <<"GRANDFATHER", "PARENTAL", "FEMALE">> :> [relationship_type |-> "MATERNAL_AUNT_PARENTAL", lineage_operation |-> "POP_THEN_PUSH_RELATIONSHIP"]
    @@ <<"GRANDFATHER", "MATERNAL", "MALE">> :> [relationship_type |-> "PARENTAL_UNCLE_MATERNAL", lineage_operation |-> "POP_THEN_PUSH_RELATIONSHIP"]
    @@ <<"GRANDFATHER", "MATERNAL", "FEMALE">> :> [relationship_type |-> "MATERNAL_AUNT_MATERNAL", lineage_operation |-> "POP_THEN_PUSH_RELATIONSHIP"]
    @@ <<"GRANDMOTHER", "FULL", "MALE">> :> [relationship_type |-> "MATERNAL_UNCLE_FULL", lineage_operation |-> "POP_THEN_PUSH_RELATIONSHIP"]
    @@ <<"GRANDMOTHER", "FULL", "FEMALE">> :> [relationship_type |-> "MATERNAL_AUNT_FULL", lineage_operation |-> "POP_THEN_PUSH_RELATIONSHIP"]
    @@ <<"GRANDMOTHER", "PARENTAL", "MALE">> :> [relationship_type |-> "MATERNAL_UNCLE_PARENTAL", lineage_operation |-> "POP_THEN_PUSH_RELATIONSHIP"]
    @@ <<"GRANDMOTHER", "PARENTAL", "FEMALE">> :> [relationship_type |-> "MATERNAL_AUNT_PARENTAL", lineage_operation |-> "POP_THEN_PUSH_RELATIONSHIP"]
    @@ <<"GRANDMOTHER", "MATERNAL", "MALE">> :> [relationship_type |-> "MATERNAL_UNCLE_MATERNAL", lineage_operation |-> "POP_THEN_PUSH_RELATIONSHIP"]
    @@ <<"GRANDMOTHER", "MATERNAL", "FEMALE">> :> [relationship_type |-> "MATERNAL_AUNT_MATERNAL", lineage_operation |-> "POP_THEN_PUSH_RELATIONSHIP"]

(***************************************************************************)
(* State.                                                                  *)
(***************************************************************************)
VARIABLES
    lineage,        \* deduce_heir_type: the tokens of the lineage iterated so far
    current_state,  \* HeirStateMachine.current_state (the state's id)
    visited,        \* history: the states entered so far, in order
    hpc,            \* position in deduce_heir_type: "loop", "raised", "returned"
    result,         \* the HeirType returned by deduce_heir_type, None before
    second,         \* a second deduce_heir_type call: its lineage, machine state, position, result
    people,         \* the Person objects created
    name,           \* Person.name (and the other data fields), per person
    gender,         \* Person.gender
    father,         \* Person.father, None when unset
    mother,         \* Person.mother, None when unset
    spouses,        \* Person.spouses
    children,       \* Person.children
    relationships,  \* FamilyTree._relationships: a dict, its domain the keys present
    stack,          \* the work stack of the running pass, a sequence of batches
    seen,           \* the ids of the persons processed by the running pass
    spouse_iter,    \* the spouses the spouse loop has not visited yet
    tpc,            \* position: "build", "descendants", "ancestors", "spouses", "done", "error"
    raised,         \* the exception that left the last call, None if it returned
    earlier,        \* the _relationships of the FamilyTree constructed before, if any
    answer          \* the set of persons the last query returned

heirVars == <<lineage, current_state, visited, hpc, result, second>>

personVars == <<people, name, gender, father, mother, spouses, children>>

treeVars == <<relationships, stack, seen, spouse_iter, tpc, raised, earlier, answer>>

vars == <<heirVars, personVars, treeVars>>

\* no person exists and no FamilyTree has been constructed
NoTree ==
    /\ people = {}
    /\ name = [p \in Persons |-> 1]
    /\ gender = [p \in Persons |-> "MALE"]
    /\ father = [p \in Persons |-> NoPerson]
    /\ mother = [p \in Persons |-> NoPerson]
    /\ spouses = [p \in Persons |-> {}]
    /\ children = [p \in Persons |-> {}]
    /\ relationships = <<>>
    /\ stack = <<>>
    /\ seen = {}
    /\ spouse_iter = {}
    /\ tpc = "build"
    /\ raised = None
    /\ earlier = <<>>
    /\ answer = {}

\* a call of deduce_heir_type that has built its machine and consumed nothing
FreshCall == [lineage |-> <<>>, current_state |-> "SELF", hpc |-> "loop", result |-> None]

\* no lineage is being classified
NoHeir ==
    /\ lineage = <<>>
    /\ current_state = "SELF"
    /\ visited = <<>>
    /\ hpc = "loop"
    /\ result = None
    /\ second = FreshCall

(***************************************************************************)
(* deduce_heir_type.                                                       *)
(***************************************************************************)
\* state_machine = HeirStateMachine(allow_event_without_transition=False)
InitHeir ==
    /\ lineage = <<>>
    /\ current_state = "SELF"
    /\ visited = <<>>
    /\ hpc = "loop"
    /\ result = None
    /\ second = FreshCall
    /\ NoTree

\* state_machine.transition(relationship): the event has a transition
TransitionTaken(relationship) ==
    /\ hpc = "loop"
    /\ Len(lineage) < MaxLineage
    /\ Targets(current_state, relationship) # {}
    /\ \E target \in Targets(current_state, relationship) :
          /\ current_state' = target
          /\ visited' = Append(visited, target)
    /\ lineage' = Append(lineage, relationship)
    /\ UNCHANGED <<hpc, result, second, personVars, treeVars>>

\* state_machine.transition(relationship): TransitionNotAllowed is raised
\* and leaves deduce_heir_type
TransitionNotAllowed(relationship) ==
    /\ hpc = "loop"
    /\ Len(lineage) < MaxLineage
    /\ Targets(current_state, relationship) = {}
    /\ lineage' = Append(lineage, relationship)
    /\ hpc' = "raised"
    /\ UNCHANGED <<current_state, visited, result, second, personVars, treeVars>>

\* return state_machine.current_heir_type
ReturnHeirType ==
    /\ hpc = "loop"
    /\ result' = current_heir_type(current_state)
    /\ hpc' = "returned"
    /\ UNCHANGED <<lineage, current_state, visited, second, personVars, treeVars>>

NextHeir ==
    \/ \E relationship \in RelationshipType : TransitionTaken(relationship)
    \/ \E relationship \in RelationshipType : TransitionNotAllowed(relationship)
    \/ ReturnHeirType

SpecHeir == InitHeir /\ [][NextHeir]_vars


(***************************************************************************)
(* Two calls of deduce_heir_type whose loop steps interleave.              *)
(***************************************************************************)
\* the second call steps the machine of the first call
SecondTransitionTaken_SharedMachine(relationship) ==
    /\ second.hpc = "loop"
    /\ Len(second.lineage) < MaxPair
    /\ Targets(current_state, relationship) # {}
    /\ \E target \in Targets(current_state, relationship) :
          /\ current_state' = target
          /\ second' = [second EXCEPT !.lineage = Append(@, relationship),
                                      !.current_state = target]
    /\ UNCHANGED <<lineage, visited, hpc, result, personVars, treeVars>>

\* the second call: state_machine.transition(relationship) on its own machine
SecondTransitionTaken(relationship) ==
    /\ second.hpc = "loop"
    /\ Len(second.lineage) < MaxPair
    /\ Targets(second.current_state, relationship) # {}
    /\ \E target \in Targets(second.current_state, relationship) :
          second' = [second EXCEPT !.lineage = Append(@, relationship),
                                   !.current_state = target]
    /\ UNCHANGED <<lineage, current_state, visited, hpc, result, personVars, treeVars>>

\* the second call: TransitionNotAllowed is raised and leaves it
SecondTransitionNotAllowed(relationship) ==
    /\ second.hpc = "loop"
    /\ Len(second.lineage) < MaxPair
    /\ Targets(second.current_state, relationship) = {}
    /\ second' = [second EXCEPT !.lineage = Append(@, relationship), !.hpc = "raised"]
    /\ UNCHANGED <<lineage, current_state, visited, hpc, result, personVars, treeVars>>

\* the second call: return state_machine.current_heir_type
SecondReturnHeirType ==
    /\ second.hpc = "loop"
    /\ second' = [second EXCEPT !.result = current_heir_type(second.current_state),
                                !.hpc = "returned"]
    /\ UNCHANGED <<lineage, current_state, visited, hpc, result, personVars, treeVars>>

\* the tokens of the lineages classified side by side
PairTokens == {"FATHER", "MOTHER", "SON", "PARENTAL_UNCLE_FULL", "HUSBAND", "SELF"}

NextPair ==
    \/ \E relationship \in PairTokens :
          Len(lineage) < MaxPair /\ TransitionTaken(relationship)
    \/ \E relationship \in PairTokens :
          Len(lineage) < MaxPair /\ TransitionNotAllowed(relationship)
    \/ ReturnHeirType
    \/ \E relationship \in PairTokens : SecondTransitionTaken(relationship)
    \/ \E relationship \in PairTokens : SecondTransitionNotAllowed(relationship)
    \/ SecondReturnHeirType

SpecPair == InitHeir /\ [][NextPair]_vars
(***************************************************************************)
(* Person: value equality and the relationship API (entities/person.py).   *)
(***************************************************************************)
\* Person.__eq__ (dataclass): field by field in declaration order, identical
\* objects equal without a call; "T", "F", or "E" for a recursion that
\* never ends (RecursionError).  trail holds the pairs under comparison.
RECURSIVE EqRec(_, _, _)
EqRec(a, b, trail) ==
    LET FieldEq(x, y) ==
            IF x = y THEN "T"
            ELSE IF x = NoPerson \/ y = NoPerson THEN "F"
            ELSE EqRec(x, y, trail \cup {<<a, b>>})
    IN  IF <<a, b>> \in trail THEN "E"
        ELSE IF name[a] # name[b] \/ gender[a] # gender[b] THEN "F"
        ELSE LET fa == FieldEq(father[a], father[b])
             IN  IF fa # "T" THEN fa
                 ELSE LET mo == FieldEq(mother[a], mother[b])
                      IN  IF mo # "T" THEN mo
                          ELSE IF spouses[a] = spouses[b] /\ children[a] = children[b]
                               THEN "T" ELSE "F"

\* a pointer comparison, as ids
PersonIs(a, b) == a = b

PersonEq(a, b) == IF PersonIs(a, b) THEN "T" ELSE EqRec(a, b, {})

\* the person takes part in some link, or is the focal person
Focal == CHOOSE p \in Persons : \A q \in Persons : p <= q

Attached(p) ==
    \/ p = Focal
    \/ father[p] # NoPerson \/ mother[p] # NoPerson
    \/ children[p] # {} \/ spouses[p] # {}
    \/ \E q \in people : p \in spouses[q]

LinkCount ==
    Cardinality({p \in people : father[p] # NoPerson})
    + Cardinality({p \in people : mother[p] # NoPerson})
    + Cardinality({pq \in people \X people : pq[2] \in spouses[pq[1]]})

\* a call of the relationship API on two existing persons, before any tree
\* is constructed
Call(p, q) ==
    /\ tpc = "build"
    /\ p \in people /\ q \in people

\* Person.add_father
AddFather(child, new_father) ==
    /\ Call(child, new_father)
    /\ LET ne == IF father[child] = NoPerson THEN "T"
                 ELSE PersonEq(father[child], new_father)
       IN  IF father[child] # NoPerson /\ ne = "F"
           THEN /\ raised' = "ValueError"
                /\ UNCHANGED <<father, children>>
           ELSE IF ne = "E"
           THEN /\ raised' = "RecursionError"
                /\ UNCHANGED <<father, children>>
           ELSE /\ father' = [father EXCEPT ![child] = new_father]
                /\ children' = [children EXCEPT ![new_father] = @ \cup {child}]
                /\ raised' = None
    /\ UNCHANGED <<people, name, gender, mother, spouses>>
    /\ UNCHANGED <<relationships, stack, seen, spouse_iter, tpc, heirVars, earlier, answer>>

\* Person.add_mother
AddMother(child, new_mother) ==
    /\ Call(child, new_mother)
    /\ LET ne == IF mother[child] = NoPerson THEN "T"
                 ELSE PersonEq(mother[child], new_mother)
       IN  IF mother[child] # NoPerson /\ ne = "F"
           THEN /\ raised' = "ValueError"
                /\ UNCHANGED <<mother, children>>
           ELSE IF ne = "E"
           THEN /\ raised' = "RecursionError"
                /\ UNCHANGED <<mother, children>>
           ELSE /\ mother' = [mother EXCEPT ![child] = new_mother]
                /\ children' = [children EXCEPT ![new_mother] = @ \cup {child}]
                /\ raised' = None
    /\ UNCHANGED <<people, name, gender, father, spouses>>
    /\ UNCHANGED <<relationships, stack, seen, spouse_iter, tpc, heirVars, earlier, answer>>

\* Person.add_child
AddChild(parent, child) ==
    CASE gender[parent] = "MALE" -> AddFather(child, parent)
      [] gender[parent] = "FEMALE" -> AddMother(child, parent)
      [] OTHER ->
            /\ Call(parent, child)
            /\ raised' = "ValueError"
            /\ UNCHANGED <<personVars, heirVars, earlier, answer>>
            /\ UNCHANGED <<relationships, stack, seen, spouse_iter, tpc>>

\* Person.add_spouse
AddSpouse(person, spouse) ==
    /\ Call(person, spouse)
    /\ IF gender[person] = gender[spouse]
       THEN /\ raised' = "ValueError"
            /\ UNCHANGED spouses
       ELSE /\ spouses' = [spouses EXCEPT ![person] = @ \cup {spouse}]
            /\ raised' = IF gender[person] = "FEMALE"
                            /\ Cardinality(spouses'[person]) > 1
                         THEN "ValueError" ELSE None
    /\ UNCHANGED <<people, name, gender, father, mother, children>>
    /\ UNCHANGED <<relationships, stack, seen, spouse_iter, tpc, heirVars, earlier, answer>>

(***************************************************************************)
(* Relationship (entities/relationship.py).                                *)
(***************************************************************************)
Relationship(person, relationship_type, rel_lineage) ==
    [person |-> person, relationship_type |-> relationship_type, lineage |-> rel_lineage]

is_ancestor(rel) == rel.relationship_type \in ANCESTOR_RELATIONSHIPS

is_sibling(rel) == rel.relationship_type \in SiblingTypes

is_uncle_or_aunt(rel) == rel.relationship_type \in UncleAuntTypes

is_cousin(rel) == rel.relationship_type = "COUSIN"

is_nephew_or_niece(rel) == rel.relationship_type \in NephewNieceTypes

\* Relationship.__hash__: the tokens' names joined by "-"; the names hold
\* no "-", so the joined strings differ exactly when the lineages differ
RelationshipHash(rel) == rel.lineage

\* the persons compared as objects, not by their fields
RelationshipEq_ByIdentity(r1, r2) ==
    IF PersonIs(r1.person, r2.person)
       /\ r1.relationship_type = r2.relationship_type /\ r1.lineage = r2.lineage
    THEN "T" ELSE "F"

\* Relationship.__eq__ (dataclass): person, then relationship_type, then lineage
RelationshipEq(r1, r2) ==
    LET pe == PersonEq(r1.person, r2.person)
    IN  IF pe # "T" THEN pe
        ELSE IF r1.relationship_type = r2.relationship_type /\ r1.lineage = r2.lineage
             THEN "T" ELSE "F"

\* set.add(rel): the elements with rel's hash are compared with rel
SetHas(set, rel) ==
    \E e \in set : RelationshipHash(e) = RelationshipHash(rel) /\ RelationshipEq(e, rel) = "T"

SetAddFails(set, rel) ==
    /\ ~SetHas(set, rel)
    /\ \E e \in set : RelationshipHash(e) = RelationshipHash(rel) /\ RelationshipEq(e, rel) = "E"

SetAdd(set, rel) == IF SetHas(set, rel) THEN set ELSE set \cup {rel}

\* self._relationships[rel.relationship_type].add(rel) on the defaultdict
Recorded(rels, rel) ==
    LET key == rel.relationship_type
        old == IF key \in DOMAIN rels THEN rels[key] ELSE {}
    IN  [k \in DOMAIN rels \cup {key} |-> IF k = key THEN SetAdd(old, rel) ELSE rels[k]]

RecordFails(rels, rel) ==
    /\ rel.relationship_type \in DOMAIN rels
    /\ SetAddFails(rels[rel.relationship_type], rel)

(***************************************************************************)
(* The work stack: a sequence of batches.  A batch holds the relationships *)
(* pushed from one iteration over a Python set, whose order is not         *)
(* determined; the pop takes any member of the batch pushed last.          *)
(***************************************************************************)
Push(stk, batches) == stk \o SelectSeq(batches, LAMBDA b : b # {})

TopBatch(stk) == stk[Len(stk)]

Popped(stk, rel) ==
    IF TopBatch(stk) = {rel}
    THEN SubSeq(stk, 1, Len(stk) - 1)
    ELSE [stk EXCEPT ![Len(stk)] = @ \ {rel}]

SonOrDaughter(p) == IF gender[p] = "MALE" THEN "SON" ELSE "DAUGHTER"

(***************************************************************************)
(* FamilyTree (entities/family_tree.py).                                   *)
(***************************************************************************)
\* FamilyTree.__init__ up to the first pop of _process_descendants
Construct ==
    /\ tpc = "build"
    /\ people # {}
    /\ \A p \in people : Attached(p)
    /\ relationships' = <<>>
    /\ stack' = Push(<<>>, <<{Relationship(child, SonOrDaughter(child),
                                            <<SonOrDaughter(child)>>) :
                                child \in children[Focal]}>>)
    /\ seen' = {}
    /\ tpc' = "descendants"
    /\ raised' = None
    /\ UNCHANGED <<spouse_iter, personVars, heirVars, earlier, answer>>

\* _process_descendants where a person seen before is skipped
ProcessDescendant_SkipSeen(rel) ==
    /\ tpc = "descendants"
    /\ stack # <<>>
    /\ rel \in TopBatch(stack)
    /\ IF rel.person \in seen
       THEN /\ stack' = Popped(stack, rel)
            /\ UNCHANGED <<relationships, seen, tpc, raised>>
       ELSE /\ relationships' = Recorded(relationships, rel)
            /\ seen' = seen \cup {rel.person}
            /\ stack' =
                 Push(Popped(stack, rel),
                      <<{Relationship(
                            grandchild,
                            IF gender[grandchild] = "MALE"
                            THEN "GRANDSON" ELSE "GRANDDAUGHTER",
                            Append(rel.lineage, SonOrDaughter(rel.person))) :
                         grandchild \in children[rel.person]}>>)
            /\ UNCHANGED <<tpc, raised>>
    /\ UNCHANGED <<spouse_iter, personVars, heirVars, earlier, answer>>

\* _process_descendants: one iteration of the while loop
ProcessDescendant(rel) ==
    /\ tpc = "descendants"
    /\ stack # <<>>
    /\ rel \in TopBatch(stack)
    /\ IF rel.person \in seen
       THEN /\ tpc' = "error"
            /\ raised' = "ValueError"
            /\ UNCHANGED <<relationships, stack, seen>>
       ELSE IF RecordFails(relationships, rel)
       THEN /\ tpc' = "error"
            /\ raised' = "RecursionError"
            /\ UNCHANGED <<relationships, stack, seen>>
       ELSE /\ relationships' = Recorded(relationships, rel)
            /\ seen' = seen \cup {rel.person}
            /\ stack' =
                 Push(Popped(stack, rel),
                      <<{Relationship(
                            grandchild,
                            IF gender[grandchild] = "MALE"
                            THEN "GRANDSON" ELSE "GRANDDAUGHTER",
                            Append(rel.lineage, SonOrDaughter(rel.person))) :
                         grandchild \in children[rel.person]}>>)
            /\ UNCHANGED <<tpc, raised>>
    /\ UNCHANGED <<spouse_iter, personVars, heirVars, earlier, answer>>

\* _process_ancestors: the initial stack
StartAncestors ==
    /\ tpc = "descendants"
    /\ stack = <<>>
    /\ stack' = <<{Relationship(Focal, "SELF", <<>>)}>>
    /\ seen' = {}
    /\ tpc' = "ancestors"
    /\ UNCHANGED <<relationships, spouse_iter, raised, personVars, heirVars, earlier, answer>>

\* the mother's entry built like the father's
_create_parent_relationships_MotherAsFather(rel) ==
    LET person == rel.person
        from_father ==
            IF father[person] # NoPerson
            THEN {Relationship(father[person],
                               IF is_ancestor(rel) THEN "GRANDFATHER" ELSE "FATHER",
                               Append(rel.lineage, "FATHER"))}
            ELSE {}
        from_mother ==
            IF mother[person] # NoPerson
            THEN {Relationship(mother[person],
                               IF is_ancestor(rel) THEN "GRANDFATHER" ELSE "FATHER",
                               Append(rel.lineage, "FATHER"))}
            ELSE {}
    IN  <<from_father, from_mother>>

\* _create_parent_relationships, the father before the mother
_create_parent_relationships(rel) ==
    LET person == rel.person
        from_father ==
            IF father[person] # NoPerson
            THEN {Relationship(father[person],
                               IF is_ancestor(rel) THEN "GRANDFATHER" ELSE "FATHER",
                               Append(rel.lineage, "FATHER"))}
            ELSE {}
        from_mother ==
            IF mother[person] # NoPerson
            THEN {Relationship(mother[person],
                               IF is_ancestor(rel) THEN "GRANDMOTHER" ELSE "MOTHER",
                               Append(rel.lineage, "MOTHER"))}
            ELSE {}
    IN  <<from_father, from_mother>>

\* _collect_siblings: the children of the person's father / mother that
\* compare unequal to the person
OtherChildren(parent, person) ==
    IF parent = NoPerson THEN {}
    ELSE {sibling \in children[parent] : PersonEq(sibling, person) # "T"}

full_brothers(person) ==
    OtherChildren(father[person], person) \cap OtherChildren(mother[person], person)

parental_brothers(person) ==
    OtherChildren(father[person], person) \ full_brothers(person)

maternal_brothers(person) ==
    OtherChildren(mother[person], person) \ full_brothers(person)

\* every lineage operation appends, none pops first
NewLineage_PushOnly(config, old_lineage, child) ==
    IF config.lineage_operation = "PUSH_PARENTAL_RELATIONSHIP"
    THEN Append(old_lineage, SonOrDaughter(child))
    ELSE Append(old_lineage, config.relationship_type)

\* the lineage operation of a table entry applied to a copy of the lineage;
\* None stands for the IndexError of list.pop on an empty list
NewLineage(config, old_lineage, child) ==
    CASE config.lineage_operation = "PUSH_RELATIONSHIP" ->
            Append(old_lineage, config.relationship_type)
      [] config.lineage_operation = "POP_THEN_PUSH_RELATIONSHIP" ->
            IF old_lineage = <<>> THEN None
            ELSE Append(SubSeq(old_lineage, 1, Len(old_lineage) - 1),
                        config.relationship_type)
      [] config.lineage_operation = "PUSH_PARENTAL_RELATIONSHIP" ->
            Append(old_lineage, SonOrDaughter(child))

\* the exception _collect_siblings raises for the relationship, None if none
CollectSiblingsError(rel) ==
    LET person == rel.person
        candidates ==
            (IF father[person] = NoPerson THEN {} ELSE children[father[person]])
            \cup (IF mother[person] = NoPerson THEN {} ELSE children[mother[person]])
        found == full_brothers(person) \cup parental_brothers(person)
                 \cup maternal_brothers(person)
    IN  IF \E c \in candidates : PersonEq(c, person) = "E" THEN "RecursionError"
        ELSE IF \E c \in found, lt \in LineageType :
                   <<rel.relationship_type, lt, gender[c]>>
                       \notin DOMAIN ANCESTORS_SIBLINGS_RELATIONSHIPS
             THEN "KeyError"
        ELSE IF \E c \in found, lt \in LineageType :
                   NewLineage(ANCESTORS_SIBLINGS_RELATIONSHIPS[
                                  <<rel.relationship_type, lt, gender[c]>>],
                              rel.lineage, c) = None
             THEN "IndexError"
        ELSE None

\* the relationships _collect_siblings returns for one lineage type
Collected(rel, group, lineage_type) ==
    {LET config == ANCESTORS_SIBLINGS_RELATIONSHIPS[
                       <<rel.relationship_type, lineage_type, gender[child]>>]
     IN  Relationship(child, config.relationship_type,
                      NewLineage(config, rel.lineage, child)) :
     child \in group}

\* _collect_siblings: full, then parental, then maternal
_collect_siblings(rel) ==
    <<Collected(rel, full_brothers(rel.person), "FULL"),
      Collected(rel, parental_brothers(rel.person), "PARENTAL"),
      Collected(rel, maternal_brothers(rel.person), "MATERNAL")>>

\* the filter of the list comprehension: id(rel.person) not in seen
NotSeen(batches, seen_ids) ==
    [i \in DOMAIN batches |-> {r \in batches[i] : r.person \notin seen_ids}]

\* the children of a sibling, nephew or niece
NephewsAndNieces(rel) ==
    {Relationship(child,
                  IF gender[child] = "MALE" THEN "NEPHEW" ELSE "NIECE",
                  Append(rel.lineage, SonOrDaughter(child))) :
     child \in children[rel.person]}

\* the token taken from the parent's gender, as the descendant pass does
Cousins_ParentGender(rel) ==
    {Relationship(cousin, "COUSIN", Append(rel.lineage, SonOrDaughter(rel.person))) :
     cousin \in children[rel.person]}

\* the children of an uncle, aunt or cousin
Cousins(rel) ==
    {Relationship(cousin, "COUSIN", Append(rel.lineage, SonOrDaughter(cousin))) :
     cousin \in children[rel.person]}

\* the lineage operation works on the ancestor's own list instead of a copy:
\* the recorded relationship ends with the lineage of a sibling derived from it
ProcessAncestor_SharedLineage(rel) ==
    /\ tpc = "ancestors"
    /\ stack # <<>>
    /\ rel \in TopBatch(stack)
    /\ IF rel.person \in seen
       THEN /\ stack' = Popped(stack, rel)
            /\ UNCHANGED <<relationships, seen, tpc, raised>>
       ELSE IF RecordFails(relationships, rel)
       THEN /\ tpc' = "error"
            /\ raised' = "RecursionError"
            /\ UNCHANGED <<relationships, stack, seen>>
       ELSE /\ relationships' =
                 LET derived == IF CollectSiblingsError(rel) # None THEN {}
                                ELSE UNION {_collect_siblings(rel)[i] : i \in 1..3}
                 IN  IF (is_ancestor(rel) \/ rel.relationship_type = "SELF")
                        /\ derived # {}
                     THEN Recorded(relationships,
                                   Relationship(rel.person, rel.relationship_type,
                                                (CHOOSE u \in derived : TRUE).lineage))
                     ELSE Recorded(relationships, rel)
            /\ seen' = seen \cup {rel.person}
            /\ IF is_ancestor(rel) \/ rel.relationship_type = "SELF"
               THEN IF CollectSiblingsError(rel) # None
                    THEN /\ tpc' = "error"
                         /\ raised' = CollectSiblingsError(rel)
                         /\ stack' = Push(Popped(stack, rel),
                                          _create_parent_relationships(rel))
                    ELSE /\ stack' =
                              Push(Push(Popped(stack, rel),
                                        _create_parent_relationships(rel)),
                                   NotSeen(_collect_siblings(rel), seen'))
                         /\ UNCHANGED <<tpc, raised>>
               ELSE IF is_sibling(rel) \/ is_nephew_or_niece(rel)
               THEN /\ stack' = Push(Popped(stack, rel), <<NephewsAndNieces(rel)>>)
                    /\ UNCHANGED <<tpc, raised>>
               ELSE IF is_uncle_or_aunt(rel) \/ is_cousin(rel)
               THEN /\ stack' = Push(Popped(stack, rel), <<Cousins(rel)>>)
                    /\ UNCHANGED <<tpc, raised>>
               ELSE /\ stack' = Popped(stack, rel)
                    /\ UNCHANGED <<tpc, raised>>
    /\ UNCHANGED <<spouse_iter, personVars, heirVars, earlier, answer>>

\* _process_ancestors: one iteration of the while loop
ProcessAncestor(rel) ==
    /\ tpc = "ancestors"
    /\ stack # <<>>
    /\ rel \in TopBatch(stack)
    /\ IF rel.person \in seen
       THEN /\ stack' = Popped(stack, rel)
            /\ UNCHANGED <<relationships, seen, tpc, raised>>
       ELSE IF RecordFails(relationships, rel)
       THEN /\ tpc' = "error"
            /\ raised' = "RecursionError"
            /\ UNCHANGED <<relationships, stack, seen>>
       ELSE /\ relationships' = Recorded(relationships, rel)
            /\ seen' = seen \cup {rel.person}
            /\ IF is_ancestor(rel) \/ rel.relationship_type = "SELF"
               THEN IF CollectSiblingsError(rel) # None
                    THEN /\ tpc' = "error"
                         /\ raised' = CollectSiblingsError(rel)
                         /\ stack' = Push(Popped(stack, rel),
                                          _create_parent_relationships(rel))
                    ELSE /\ stack' =
                              Push(Push(Popped(stack, rel),
                                        _create_parent_relationships(rel)),
                                   NotSeen(_collect_siblings(rel), seen'))
                         /\ UNCHANGED <<tpc, raised>>
               ELSE IF is_sibling(rel) \/ is_nephew_or_niece(rel)
               THEN /\ stack' = Push(Popped(stack, rel), <<NephewsAndNieces(rel)>>)
                    /\ UNCHANGED <<tpc, raised>>
               ELSE IF is_uncle_or_aunt(rel) \/ is_cousin(rel)
               THEN /\ stack' = Push(Popped(stack, rel), <<Cousins(rel)>>)
                    /\ UNCHANGED <<tpc, raised>>
               ELSE /\ stack' = Popped(stack, rel)
                    /\ UNCHANGED <<tpc, raised>>
    /\ UNCHANGED <<spouse_iter, personVars, heirVars, earlier, answer>>

\* _generate_relationships: the spouse loop starts
StartSpouses ==
    /\ tpc = "ancestors"
    /\ stack = <<>>
    /\ spouse_iter' = spouses[Focal]
    /\ tpc' = "spouses"
    /\ UNCHANGED <<relationships, stack, seen, raised, personVars, heirVars, earlier, answer>>

\* _generate_relationships: one iteration of the spouse loop
ProcessSpouse(spouse) ==
    /\ tpc = "spouses"
    /\ spouse \in spouse_iter
    /\ LET relationship_type ==
               IF gender[Focal] = "FEMALE" THEN "HUSBAND" ELSE "WIFE"
           rel == Relationship(spouse, relationship_type, <<relationship_type>>)
       IN  IF RecordFails(relationships, rel)
           THEN /\ tpc' = "error"
                /\ raised' = "RecursionError"
                /\ UNCHANGED <<relationships, spouse_iter>>
           ELSE /\ relationships' = Recorded(relationships, rel)
                /\ spouse_iter' = spouse_iter \ {spouse}
                /\ UNCHANGED <<tpc, raised>>
    /\ UNCHANGED <<stack, seen, personVars, heirVars, earlier, answer>>

\* FamilyTree.__init__ returns
Constructed ==
    /\ tpc = "spouses"
    /\ spouse_iter = {}
    /\ tpc' = "done"
    /\ UNCHANGED <<relationships, stack, seen, spouse_iter, raised, personVars, heirVars, earlier, answer>>

\* FamilyTree.__init__ (or change_focal_point) called once more for the same
\* person on the unchanged graph: a new index; the one built before is kept
ConstructAgain ==
    /\ tpc = "done"
    /\ earlier = <<>>
    /\ earlier' = <<relationships>>
    /\ relationships' = <<>>
    /\ stack' = Push(<<>>, <<{Relationship(child, SonOrDaughter(child),
                                            <<SonOrDaughter(child)>>) :
                                child \in children[Focal]}>>)
    /\ seen' = {}
    /\ tpc' = "descendants"
    /\ raised' = None
    /\ UNCHANGED <<spouse_iter, personVars, heirVars, answer>>

\* only the relatives on the father's side are returned
get_relatives_PaternalSide(rels, relationship_type) ==
    IF relationship_type \in DOMAIN rels
    THEN {rel.person : rel \in {r \in rels[relationship_type] :
                                   r.lineage # <<>> /\ r.lineage[1] = "FATHER"}}
    ELSE {}

\* FamilyTree.get_relatives
get_relatives(rels, relationship_type) ==
    IF relationship_type \in DOMAIN rels
    THEN {rel.person : rel \in rels[relationship_type]}
    ELSE {}

(***************************************************************************)
(* The persons of a run: created with their data, no link yet.  The data   *)
(* fields (name, religion, years) are written as one value, name: either   *)
(* every person has data of its own, or all persons have the same data.    *)
(* Persons other than the focal one are numbered by gender.                *)
(***************************************************************************)
GenderRank(g) == CASE g = "MALE" -> 0 [] g = "FEMALE" -> 1 [] OTHER -> 2

InitTree ==
    /\ NoHeir
    /\ \E n \in 1..MaxFamily : people = 1..n
    /\ name \in {[p \in Persons |-> p], [p \in Persons |-> 1]}
    /\ gender \in [Persons -> Gender]
    /\ \A p \in Persons \ people : gender[p] = "MALE"
    /\ \A p, q \in people \ {Focal} : p < q => GenderRank(gender[p]) <= GenderRank(gender[q])
    /\ father = [p \in Persons |-> NoPerson]
    /\ mother = [p \in Persons |-> NoPerson]
    /\ spouses = [p \in Persons |-> {}]
    /\ children = [p \in Persons |-> {}]
    /\ relationships = <<>>
    /\ stack = <<>>
    /\ seen = {}
    /\ spouse_iter = {}
    /\ tpc = "build"
    /\ raised = None
    /\ earlier = <<>>
    /\ answer = {}

\* the calls explored: within the link budget, and growing the focal
\* person's family outwards
\* the persons that take part in some link
Linked == {p \in people : Attached(p)}

\* among the persons of one gender not linked yet, the next to be linked
NextToLink(p) ==
    \A q \in people : (p \notin Linked /\ q < p /\ gender[q] = gender[p]) => q \in Linked

\* calls are explored before a tree is constructed, within the link budget
Building == tpc = "build" /\ LinkCount < MaxLinks

\* the links left in the budget
LinksLeft == MaxLinks - LinkCount

\* a call is explored if it grows the focal person's family and leaves
\* enough links to attach everybody, so that a tree can be constructed
MayLink(p, q) ==
    /\ {p, q} \cap Linked # {}
    /\ Cardinality(people \ (Linked \cup {p, q})) < LinksLeft
    /\ NextToLink(p) /\ NextToLink(q)

NextTree ==
    \/ Building /\ \E c, f \in people : MayLink(c, f) /\ gender[f] = "MALE" /\ AddFather(c, f)
    \/ Building /\ \E c, m \in people : MayLink(c, m) /\ gender[m] = "FEMALE" /\ AddMother(c, m)
    \/ Building /\ \E p, c \in people : MayLink(p, c) /\ AddChild(p, c)
    \/ Building /\ \E p, s \in people : MayLink(p, s) /\ Focal \in {p, s} /\ AddSpouse(p, s)
    \/ Construct
    \/ \E rel \in UNION {stack[i] : i \in DOMAIN stack} : ProcessDescendant(rel)
    \/ StartAncestors
    \/ \E rel \in UNION {stack[i] : i \in DOMAIN stack} : ProcessAncestor(rel)
    \/ StartSpouses
    \/ \E spouse \in Persons : ProcessSpouse(spouse)
    \/ Constructed

SpecTree == InitTree /\ [][NextTree]_vars

\* the same, with a second FamilyTree constructed after the first
NextTwice ==
    \/ NextTree
    \/ ConstructAgain

SpecTwice == InitTree /\ [][NextTwice]_vars

(***************************************************************************)
(* A pedigree: persons with data of their own and a known gender; every    *)
(* call links the next person that has no link yet to one that has.        *)
(***************************************************************************)
InitKin ==
    /\ NoHeir
    /\ \E n \in 1..MaxKin : people = 1..n
    /\ name = [p \in Persons |-> p]
    /\ gender \in [Persons -> {"MALE", "FEMALE"}]
    /\ \A p \in Persons \ people : gender[p] = "MALE"
    /\ father = [p \in Persons |-> NoPerson]
    /\ mother = [p \in Persons |-> NoPerson]
    /\ spouses = [p \in Persons |-> {}]
    /\ children = [p \in Persons |-> {}]
    /\ relationships = <<>>
    /\ stack = <<>>
    /\ seen = {}
    /\ spouse_iter = {}
    /\ tpc = "build"
    /\ raised = None
    /\ earlier = <<>>
    /\ answer = {}

\* the next person without a link is linked to the focal person or to the
\* person linked last
Grows(p, q) ==
    LET fresh == {x \in people : ~Attached(x)}
        next == CHOOSE x \in fresh : \A y \in fresh : x <= y
        tips == {Focal} \cup {x \in people : x + 1 = next}
    IN  /\ tpc = "build"
        /\ fresh # {}
        /\ \/ p = next /\ q \in tips
           \/ q = next /\ p \in tips

NextKin ==
    \/ \E c, f \in Persons : Grows(c, f) /\ gender[f] = "MALE" /\ AddFather(c, f)
    \/ \E c, m \in Persons : Grows(c, m) /\ gender[m] = "FEMALE" /\ AddMother(c, m)
    \/ \E s \in Persons : Grows(Focal, s) /\ AddSpouse(Focal, s)
    \/ Construct
    \/ \E rel \in UNION {stack[i] : i \in DOMAIN stack} : ProcessDescendant(rel)
    \/ StartAncestors
    \/ \E rel \in UNION {stack[i] : i \in DOMAIN stack} : ProcessAncestor(rel)
    \/ StartSpouses
    \/ \E spouse \in Persons : ProcessSpouse(spouse)
    \/ Constructed

SpecKin == InitKin /\ [][NextKin]_vars

(***************************************************************************)
(* Queries on a constructed tree (entities/family_tree.py).                *)
(***************************************************************************)
\* FamilyTree.get_relatives called on the constructed tree: the lookup in the
\* defaultdict creates the key it does not find
GetRelatives(relationship_type) ==
    /\ tpc = "done"
    /\ relationships' =
          [k \in DOMAIN relationships \cup {relationship_type} |->
              IF k \in DOMAIN relationships THEN relationships[k] ELSE {}]
    /\ answer' = get_relatives(relationships', relationship_type)
    /\ UNCHANGED <<stack, seen, spouse_iter, tpc, raised, earlier, personVars, heirVars>>

\* FamilyTree.get_siblings
GetSiblings ==
    /\ tpc = "done"
    /\ answer' = {rel.person : rel \in {r \in UNION {relationships[k] : k \in DOMAIN relationships} :
                                          is_sibling(r)}}
    /\ UNCHANGED <<relationships, stack, seen, spouse_iter, tpc, raised, earlier>>
    /\ UNCHANGED <<personVars, heirVars>>

\* FamilyTree.get_uncles_and_aunts
GetUnclesAndAunts ==
    /\ tpc = "done"
    /\ answer' = {rel.person : rel \in {r \in UNION {relationships[k] : k \in DOMAIN relationships} :
                                          is_uncle_or_aunt(r)}}
    /\ UNCHANGED <<relationships, stack, seen, spouse_iter, tpc, raised, earlier>>
    /\ UNCHANGED <<personVars, heirVars>>

\* the relationship types asked for
QueryTypes == {"FATHER", "BROTHER_PARENTAL"}

\* a pedigree, then queries on the constructed tree
NextQuery ==
    \/ NextKin
    \/ \E relationship_type \in QueryTypes : GetRelatives(relationship_type)
    \/ GetSiblings
    \/ GetUnclesAndAunts

SpecQuery == InitKin /\ [][NextQuery]_vars

(***************************************************************************)
(* The relationship API of Person called on any two persons, whatever      *)
(* their genders; no tree is constructed.                                  *)
(***************************************************************************)
NextPerson ==
    \/ Building /\ \E child, new_father \in people :
          MayLink(child, new_father) /\ AddFather(child, new_father)
    \/ Building /\ \E child, new_mother \in people :
          MayLink(child, new_mother) /\ AddMother(child, new_mother)
    \/ Building /\ \E parent, child \in people :
          MayLink(parent, child) /\ AddChild(parent, child)
    \/ Building /\ \E person, spouse \in people :
          MayLink(person, spouse) /\ AddSpouse(person, spouse)

SpecPerson == InitTree /\ [][NextPerson]_vars

(***************************************************************************)
(* A single line of kin: persons with data of their own and a known        *)
(* gender; every call links the next person that has no link yet to the    *)
(* person linked last, as a parent or as a child.                          *)
(***************************************************************************)
InitLine ==
    /\ NoHeir
    /\ \E n \in 1..MaxLine : people = 1..n
    /\ name = [p \in Persons |-> p]
    /\ gender \in [Persons -> {"MALE", "FEMALE"}]
    /\ \A p \in Persons \ people : gender[p] = "MALE"
    /\ father = [p \in Persons |-> NoPerson]
    /\ mother = [p \in Persons |-> NoPerson]
    /\ spouses = [p \in Persons |-> {}]
    /\ children = [p \in Persons |-> {}]
    /\ relationships = <<>>
    /\ stack = <<>>
    /\ seen = {}
    /\ spouse_iter = {}
    /\ tpc = "build"
    /\ raised = None
    /\ earlier = <<>>
    /\ answer = {}

\* the person linked last, and the next person without a link
Extends(p, q) ==
    /\ tpc = "build"
    /\ {p, q} \subseteq people
    /\ p + 1 = q \/ q + 1 = p
    /\ \A x \in people : Attached(x) <=> (x <= p /\ x <= q)

NextLine ==
    \/ \E c, f \in Persons : Extends(c, f) /\ gender[f] = "MALE" /\ AddFather(c, f)
    \/ \E c, m \in Persons : Extends(c, m) /\ gender[m] = "FEMALE" /\ AddMother(c, m)
    \/ Construct
    \/ \E rel \in UNION {stack[i] : i \in DOMAIN stack} : ProcessDescendant(rel)
    \/ StartAncestors
    \/ \E rel \in UNION {stack[i] : i \in DOMAIN stack} : ProcessAncestor(rel)
    \/ StartSpouses
    \/ Constructed

SpecLine == InitLine /\ [][NextLine]_vars

(***************************************************************************)
(* A family of descendants: persons with data of their own and a known     *)
(* gender; every call gives a child to the focal person or to one of its   *)
(* descendants.                                                            *)
(***************************************************************************)
InitDescent ==
    /\ NoHeir
    /\ \E n \in 1..MaxDescent : people = 1..n
    /\ name = [p \in Persons |-> p]
    /\ gender \in [Persons -> {"MALE", "FEMALE"}]
    /\ \A p \in Persons \ people : gender[p] = "MALE"
    /\ \A p, q \in people \ {Focal} : p < q => GenderRank(gender[p]) <= GenderRank(gender[q])
    /\ father = [p \in Persons |-> NoPerson]
    /\ mother = [p \in Persons |-> NoPerson]
    /\ spouses = [p \in Persons |-> {}]
    /\ children = [p \in Persons |-> {}]
    /\ relationships = <<>>
    /\ stack = <<>>
    /\ seen = {}
    /\ spouse_iter = {}
    /\ tpc = "build"
    /\ raised = None
    /\ earlier = <<>>
    /\ answer = {}

\* the persons reachable from the focal person along child edges, itself included
BelowFocal ==
    LET RECURSIVE Below(_, _)
        Below(set, k) ==
            IF k = 0 THEN set
            ELSE Below(set \cup UNION {children[p] : p \in set}, k - 1)
    IN  Below({Focal}, Cardinality(people))

NextDescent ==
    \/ tpc = "build" /\ \E parent \in BelowFocal, child \in people \ {Focal} :
          NextToLink(child) /\ AddChild(parent, child)
    \/ Construct
    \/ \E rel \in UNION {stack[i] : i \in DOMAIN stack} : ProcessDescendant(rel)
    \/ StartAncestors
    \/ \E rel \in UNION {stack[i] : i \in DOMAIN stack} : ProcessAncestor(rel)
    \/ StartSpouses
    \/ Constructed

SpecDescent == InitDescent /\ [][NextDescent]_vars

(***************************************************************************)
(* FamilyTreeBuilder: the cycle check of validate (family_tree_builder.py). *)
(***************************************************************************)
\* _has_circular_reference(person, visited, path): the depth-first search
\* along child edges meets a person that is on its current path; path is the
\* sequence of persons from the start down to the one visited
RECURSIVE PathMeetsItself(_, _)
PathMeetsItself(person, path) ==
    \/ person \in {path[i] : i \in DOMAIN path}
    \/ \E child \in children[person] : PathMeetsItself(child, Append(path, person))

_has_circular_reference(person) == PathMeetsItself(person, <<>>)

\* FamilyTreeBuilder.validate returns no error: it finds no circular reference and no
\* inconsistent relationship
ValidateAccepts ==
    /\ \A person \in people : ~_has_circular_reference(person)
    /\ \A person \in people :
          /\ father[person] # NoPerson => person \in children[father[person]]
          /\ mother[person] # NoPerson => person \in children[mother[person]]
          /\ \A spouse \in spouses[person] : person \in spouses[spouse]

(***************************************************************************)
(* Properties of the heir state machine.                                   *)
(***************************************************************************)
Last(s) == s[Len(s)]

SonDaughter == {"SON", "DAUGHTER"}

FatherMother == {"FATHER", "MOTHER"}

\* the tokens iterated before position k / after position k
TokensBefore(k) == {lineage[i] : i \in 1..(k - 1)}

TokensAfter(k) == {lineage[i] : i \in (k + 1)..Len(lineage)}

\* the <<state, token>> pairs for which section 4.3 lists a transition
Section43 ==
    {<<"SELF", e>> : e \in {"HUSBAND", "WIFE", "FATHER", "MOTHER", "SON", "DAUGHTER", "SELF"}}
    \cup {<<"SELF", e>> : e \in SiblingTypes \cup UncleAuntTypes}
    \cup {<<"SON", e>> : e \in SonDaughter}
    \cup {<<"DAUGHTER", e>> : e \in SonDaughter}
    \cup {<<"FATHER", e>> : e \in FatherMother \cup UncleAuntTypes}
    \cup {<<"MOTHER", e>> : e \in FatherMother \cup UncleAuntTypes}
    \cup {<<s, e>> : s \in SiblingTypes, e \in SonDaughter}
    \cup {<<s, e>> : s \in {"NEPHEW_PARENTAL", "UNCLE_FULL", "UNCLE_PARENTAL",
                            "SON_UNCLE_FULL", "SON_UNCLE_PARENTAL"},
                     e \in SonDaughter}
    \cup {<<"UTERINE", e>> : e \in FatherMother \cup SonDaughter}

\* C1: in every state, a token for which section 4.3 lists no transition
\* from that state raises the invalid-transition error, and deduce_heir_type
\* propagates it instead of returning a HeirType.
C1_UnlistedTokenRaises ==
    [][\A tok \in RelationshipType :
          (hpc = "loop" /\ lineage' = Append(lineage, tok)
             /\ <<current_state, tok>> \notin Section43)
          => (hpc' = "raised" /\ result' = None)]_vars

\* C2: once the machine is in HUSBAND, WIFE or STRANGER, any further token
\* raises the invalid-transition error and leaves the state unchanged, and
\* deduce_heir_type returns no HeirType for such a lineage.
C2_TerminalStatesAbsorb ==
    \A k \in DOMAIN visited :
        (visited[k] \in {"HUSBAND", "WIFE", "STRANGER"} /\ Len(lineage) > k)
        => /\ hpc = "raised"
           /\ result = None
           /\ current_state = visited[k]
           /\ Len(visited) = k
           /\ Len(lineage) = k + 1

C2_Witness ==
    /\ hpc = "raised"
    /\ Len(visited) = 2
    /\ visited[1] = "FATHER"
    /\ current_state = "STRANGER"
    /\ Last(lineage) = "SELF"

\* C3: once UTERINE is reached, FATHER, MOTHER, SON and DAUGHTER keep the
\* machine at UTERINE, and nothing consumed afterwards ends in a fixed-share
\* or residuary HeirType.
C3_UterineSink ==
    \A k \in DOMAIN visited :
        visited[k] = "UTERINE"
        => /\ \A j \in (k + 1)..Len(visited) :
                 /\ lineage[j] \in FatherMother \cup SonDaughter => visited[j] = "UTERINE"
                 /\ ~IsFardh(visited[j])
                 /\ ~IsTaasib(visited[j])
           /\ (hpc = "raised" /\ current_state = "UTERINE")
                 => Last(lineage) \notin FatherMother \cup SonDaughter
           /\ hpc = "returned" => (~IsFardh(result) /\ ~IsTaasib(result))

C3_Witness ==
    /\ hpc = "returned"
    /\ Len(visited) >= 4
    /\ visited[1] = "UTERINE"
    /\ FatherMother \cup SonDaughter \subseteq TokensAfter(1)
    /\ result = "UTERINE"

\* C4: a non-empty lineage of SON and DAUGHTER tokens only yields SON when
\* all tokens are SON, DAUGHTER when only its last token is DAUGHTER, and
\* UTERINE when any token follows a DAUGHTER.
C4_DescendantChains ==
    (Len(lineage) >= 1 /\ \A i \in DOMAIN lineage : lineage[i] \in SonDaughter)
    => /\ hpc # "raised"
       /\ hpc = "returned" =>
            result = IF \A i \in DOMAIN lineage : lineage[i] = "SON" THEN "SON"
                     ELSE IF "DAUGHTER" \notin TokensBefore(Len(lineage))
                          THEN "DAUGHTER"
                          ELSE "UTERINE"

C4_Witness ==
    /\ hpc = "returned"
    /\ Len(lineage) >= 3
    /\ lineage[1] = "SON"
    /\ lineage[2] = "DAUGHTER"
    /\ \A i \in DOMAIN lineage : lineage[i] \in SonDaughter
    /\ result = "UTERINE"

\* C5: a non-empty lineage of FATHER and MOTHER tokens only yields FATHER
\* when all tokens are FATHER, MOTHER when it is FATHER tokens followed by
\* one or more MOTHER tokens, and UTERINE when a FATHER occurs after a MOTHER.
C5_AncestorChains ==
    (Len(lineage) >= 1 /\ \A i \in DOMAIN lineage : lineage[i] \in FatherMother)
    => /\ hpc # "raised"
       /\ hpc = "returned" =>
            result = IF \A i \in DOMAIN lineage : lineage[i] = "FATHER" THEN "FATHER"
                     ELSE IF \E i \in DOMAIN lineage :
                                lineage[i] = "MOTHER" /\ "FATHER" \in TokensAfter(i)
                          THEN "UTERINE"
                          ELSE "MOTHER"

C5_Witness ==
    /\ hpc = "returned"
    /\ lineage = <<"FATHER", "MOTHER", "MOTHER", "FATHER">>
    /\ result = "UTERINE"

\* C6: a single sibling token yields the HeirType of the same name;
\* [BROTHER_FULL, SON] yields NEPHEW_FULL; BROTHER_PARENTAL followed by SON
\* tokens yields NEPHEW_PARENTAL; a DAUGHTER after BROTHER_FULL,
\* BROTHER_PARENTAL or NEPHEW_PARENTAL yields UTERINE; BROTHER_MATERNAL or a
\* SISTER token followed by SON/DAUGHTER tokens yields UTERINE.
C6_SiblingLineages ==
    LET n == Len(lineage)
        rest == TokensAfter(1)
        middle == {lineage[i] : i \in 2..(n - 1)}
        expect(h) == hpc # "raised" /\ (hpc = "returned" => result = h)
    IN  (n >= 1 /\ lineage[1] \in SiblingTypes)
        => /\ n = 1 => expect(lineage[1])
           /\ lineage = <<"BROTHER_FULL", "SON">> => expect("NEPHEW_FULL")
           /\ (lineage[1] = "BROTHER_PARENTAL" /\ n >= 2 /\ rest = {"SON"})
                 => expect("NEPHEW_PARENTAL")
           /\ lineage = <<"BROTHER_FULL", "DAUGHTER">> => expect("UTERINE")
           /\ (lineage[1] = "BROTHER_PARENTAL" /\ n >= 2 /\ middle \subseteq {"SON"}
                 /\ lineage[n] = "DAUGHTER")
                 => expect("UTERINE")
           /\ (lineage[1] \in SiblingTypes \ {"BROTHER_FULL", "BROTHER_PARENTAL"}
                 /\ n >= 2 /\ rest \subseteq SonDaughter)
                 => expect("UTERINE")

C6_Witness ==
    /\ hpc = "returned"
    /\ lineage = <<"BROTHER_PARENTAL", "SON", "SON", "DAUGHTER">>
    /\ visited[3] = "NEPHEW_PARENTAL"
    /\ result = "UTERINE"

\* C7: for FATHER tokens, then one uncle/aunt token, then SON/DAUGHTER
\* tokens: PARENTAL_UNCLE_FULL/PARENTAL yields UNCLE_FULL/PARENTAL alone and
\* SON_UNCLE_FULL/PARENTAL when followed by SON tokens only; a DAUGHTER after
\* the uncle yields UTERINE; the ten other uncle/aunt tokens yield UTERINE;
\* from state MOTHER all twelve uncle/aunt tokens yield UTERINE.
C7_UncleLineages ==
    LET n == Len(lineage)
        expect(h) == hpc # "raised" /\ (hpc = "returned" => result = h)
    IN  \A k \in DOMAIN lineage :
           (/\ lineage[k] \in UncleAuntTypes
            /\ TokensAfter(k) \subseteq SonDaughter
            /\ TokensBefore(k) \subseteq FatherMother
            /\ \A i \in 1..(k - 1) : lineage[i] = "MOTHER" => "FATHER" \notin {lineage[j] : j \in (i + 1)..(k - 1)})
           => IF "MOTHER" \in TokensBefore(k)
              THEN expect("UTERINE")
              ELSE IF lineage[k] \in {"PARENTAL_UNCLE_FULL", "PARENTAL_UNCLE_PARENTAL"}
                   THEN LET x == IF lineage[k] = "PARENTAL_UNCLE_FULL"
                                 THEN "FULL" ELSE "PARENTAL"
                        IN  IF k = n
                            THEN expect(IF x = "FULL" THEN "UNCLE_FULL" ELSE "UNCLE_PARENTAL")
                            ELSE IF TokensAfter(k) = {"SON"}
                                 THEN expect(IF x = "FULL" THEN "SON_UNCLE_FULL"
                                             ELSE "SON_UNCLE_PARENTAL")
                                 ELSE expect("UTERINE")
                   ELSE expect("UTERINE")

C7_Witness ==
    /\ hpc = "returned"
    /\ lineage = <<"FATHER", "FATHER", "PARENTAL_UNCLE_PARENTAL", "SON", "SON">>
    /\ result = "SON_UNCLE_PARENTAL"

(***************************************************************************)
(* Properties of the relationship resolver.                                *)
(***************************************************************************)
Parents(p) == {father[p], mother[p]} \ {NoPerson}

RECURSIVE AncestorsWithin(_, _)
AncestorsWithin(set, k) ==
    IF k = 0 THEN set
    ELSE AncestorsWithin(set \cup UNION {Parents(p) : p \in set}, k - 1)

\* no person is an ancestor of itself
Acyclic ==
    \A p \in people : p \notin AncestorsWithin(Parents(p), Cardinality(Persons))

SharesFather(a, b) == father[a] # NoPerson /\ father[a] = father[b]

SharesMother(a, b) == mother[a] # NoPerson /\ mother[a] = mother[b]

\* FULL, PARENTAL or MATERNAL: the parents b shares with a
Sharing(a, b) ==
    IF SharesFather(a, b) /\ SharesMother(a, b) THEN "FULL"
    ELSE IF SharesFather(a, b) THEN "PARENTAL"
    ELSE "MATERNAL"

SiblingTypeOf ==
    <<"MALE", "FULL">> :> "BROTHER_FULL" @@ <<"MALE", "PARENTAL">> :> "BROTHER_PARENTAL"
    @@ <<"MALE", "MATERNAL">> :> "BROTHER_MATERNAL"
    @@ <<"FEMALE", "FULL">> :> "SISTER_FULL" @@ <<"FEMALE", "PARENTAL">> :> "SISTER_PARENTAL"
    @@ <<"FEMALE", "MATERNAL">> :> "SISTER_MATERNAL"

\* the other children of the focal person's father and mother
OtherChildrenOfParents ==
    UNION {children[q] : q \in Parents(Focal)} \ {Focal}

\* C8: once the tree is constructed, every other child of the focal person's
\* father or mother is recorded under the one sibling type its gender and the
\* parents it shares determine, with that token as its whole lineage, and
\* under no other sibling type; the focal person is under no sibling type.
C8_SiblingsRecordedOnce ==
    tpc = "done" =>
        /\ \A c \in OtherChildrenOfParents :
              /\ <<gender[c], Sharing(Focal, c)>> \in DOMAIN SiblingTypeOf
              /\ LET expected == SiblingTypeOf[<<gender[c], Sharing(Focal, c)>>]
                 IN  /\ expected \in DOMAIN relationships
                     /\ Relationship(c, expected, <<expected>>) \in relationships[expected]
                     /\ \A t \in SiblingTypes \ {expected} :
                           c \notin get_relatives(relationships, t)
        /\ \A t \in SiblingTypes : Focal \notin get_relatives(relationships, t)

\* C9: once the tree of an acyclic graph is constructed, the focal person's
\* father is among the FATHER relatives with lineage [FATHER], and the mother
\* among the MOTHER relatives with lineage [MOTHER].
C9_ParentsRecorded ==
    (tpc = "done" /\ Acyclic) =>
        /\ father[Focal] # NoPerson =>
              /\ "FATHER" \in DOMAIN relationships
              /\ Relationship(father[Focal], "FATHER", <<"FATHER">>)
                     \in relationships["FATHER"]
        /\ mother[Focal] # NoPerson =>
              /\ "MOTHER" \in DOMAIN relationships
              /\ Relationship(mother[Focal], "MOTHER", <<"MOTHER">>)
                     \in relationships["MOTHER"]

CollateralTypeOf ==
    <<"PARENTAL", "MALE", "FULL">> :> "PARENTAL_UNCLE_FULL"
    @@ <<"PARENTAL", "MALE", "PARENTAL">> :> "PARENTAL_UNCLE_PARENTAL"
    @@ <<"PARENTAL", "MALE", "MATERNAL">> :> "PARENTAL_UNCLE_MATERNAL"
    @@ <<"PARENTAL", "FEMALE", "FULL">> :> "PARENTAL_AUNT_FULL"
    @@ <<"PARENTAL", "FEMALE", "PARENTAL">> :> "PARENTAL_AUNT_PARENTAL"
    @@ <<"PARENTAL", "FEMALE", "MATERNAL">> :> "PARENTAL_AUNT_MATERNAL"
    @@ <<"MATERNAL", "MALE", "FULL">> :> "MATERNAL_UNCLE_FULL"
    @@ <<"MATERNAL", "MALE", "PARENTAL">> :> "MATERNAL_UNCLE_PARENTAL"
    @@ <<"MATERNAL", "MALE", "MATERNAL">> :> "MATERNAL_UNCLE_MATERNAL"
    @@ <<"MATERNAL", "FEMALE", "FULL">> :> "MATERNAL_AUNT_FULL"
    @@ <<"MATERNAL", "FEMALE", "PARENTAL">> :> "MATERNAL_AUNT_PARENTAL"
    @@ <<"MATERNAL", "FEMALE", "MATERNAL">> :> "MATERNAL_AUNT_MATERNAL"

\* the ancestors about to be popped and handed to _collect_siblings
AncestorsToClassify ==
    IF tpc = "ancestors" /\ stack # <<>>
    THEN {rel \in TopBatch(stack) :
            /\ is_ancestor(rel)
            /\ rel.person \notin seen
            /\ ~RecordFails(relationships, rel)
            /\ CollectSiblingsError(rel) = None}
    ELSE {}

\* C10: the collaterals _collect_siblings produces for an ancestor popped as
\* FATHER or GRANDFATHER are typed PARENTAL_UNCLE_x / PARENTAL_AUNT_x, those
\* of an ancestor popped as MOTHER or GRANDMOTHER MATERNAL_UNCLE_x /
\* MATERNAL_AUNT_x, x being the parents the collateral shares with the ancestor.
C10_CollateralTypes ==
    \A rel \in AncestorsToClassify :
        \A i \in 1..3 : \A col \in _collect_siblings(rel)[i] :
            LET side == IF rel.relationship_type \in {"FATHER", "GRANDFATHER"}
                        THEN "PARENTAL" ELSE "MATERNAL"
            IN  col.relationship_type =
                    CollateralTypeOf[<<side, gender[col.person],
                                       Sharing(rel.person, col.person)>>]

(***************************************************************************)
(* Properties of the passes of the resolver.                               *)
(***************************************************************************)
RECURSIVE DescendantsWithin(_, _)
DescendantsWithin(set, k) ==
    IF k = 0 THEN set
    ELSE DescendantsWithin(set \cup UNION {children[p] : p \in set}, k - 1)

\* the persons reachable from a set along child edges, the set included
Descendants(set) == DescendantsWithin(set, Cardinality(Persons))

\* the child edges reachable from the focal person's children hold a cycle
DescendantCycle ==
    \E p \in Descendants(children[Focal]) : p \in Descendants(children[p])

Neighbours(p) == Parents(p) \cup children[p]

RECURSIVE EdgesFrom(_, _, _)
EdgesFrom(reached, target, k) ==
    IF target \in reached \/ k >= Cardinality(Persons) THEN k
    ELSE EdgesFrom(reached \cup UNION {Neighbours(p) : p \in reached}, target, k + 1)

\* the number of parent/child edges on the shortest path between two persons
Edges(a, b) == EdgesFrom({a}, b, 0)

\* the relationships the descendant pass and the ancestor pass recorded
RecordedByPasses ==
    UNION {relationships[t] : t \in DOMAIN relationships \ {"HUSBAND", "WIFE"}}

\* C12 as stated: on a constructed tree the lineage of every relationship of
\* the descendant and ancestor passes is as long as the path of parent/child
\* edges from the focal person to its person (2 for a sibling, 3 for an uncle).
C12_LineageLengthIsEdges ==
    tpc = "done" =>
        \A rel \in RecordedByPasses : Len(rel.lineage) = Edges(Focal, rel.person)

\* C12 amended: a sibling token stands for the two edges to the sibling and an
\* uncle or aunt token for the three edges to the uncle or aunt, every other
\* token for one edge; so the lineage is one shorter than the path for
\* siblings, nephews and nieces, two shorter for uncles, aunts and cousins.
C12_LineageLengthAmended ==
    tpc = "done" =>
        \A rel \in RecordedByPasses :
            Len(rel.lineage) =
                Edges(Focal, rel.person)
                - (IF is_sibling(rel) \/ is_nephew_or_niece(rel) THEN 1
                   ELSE IF is_uncle_or_aunt(rel) \/ is_cousin(rel) THEN 2
                   ELSE 0)

C12_Witness ==
    /\ tpc = "done"
    /\ \E rel \in RecordedByPasses : is_cousin(rel) /\ Len(rel.lineage) = 2
    /\ \E rel \in RecordedByPasses : rel.relationship_type = "GRANDFATHER"

\* C13: the construction of a tree over a graph without a parent/child cycle
\* runs to its end; it never stops in a pass with an exception, its work
\* stack not emptied and the spouse pass not completed.
C13_AcyclicConstructionCompletes ==
    Acyclic => tpc # "error"

\* the (person, relationship_type, lineage) triples of an index
Triples(index) == UNION {index[t] : t \in DOMAIN index}

RecordedByAncestorPass ==
    UNION {relationships[t] :
           t \in DOMAIN relationships
                 \ (DESCENDANT_RELATIONSHIPS \cup {"HUSBAND", "WIFE"})}

\* C15: every person the ancestor-and-collateral pass has reached, by one
\* path or by several, is in exactly one relationship recorded by the pass.
C15_RecordedExactlyOnce ==
    tpc \in {"ancestors", "spouses", "done"} =>
        \A p \in seen :
            Cardinality({rel \in RecordedByAncestorPass : rel.person = p}) = 1

\* at most one relationship of the pass per person
AtMostOncePerPerson ==
    \A r1, r2 \in RecordedByAncestorPass : r1.person = r2.person => r1 = r2

\* C16: on a constructed tree every spouse of a female focal person is held
\* as HUSBAND with lineage [HUSBAND] and every spouse of a male focal person
\* as WIFE with lineage [WIFE], whatever else the person is recorded as.
C16_SpousesRecorded ==
    (tpc = "done" /\ gender[Focal] \in {"MALE", "FEMALE"}) =>
        \A s \in spouses[Focal] :
            LET t == IF gender[Focal] = "FEMALE" THEN "HUSBAND" ELSE "WIFE"
            IN  /\ t \in DOMAIN relationships
                /\ Relationship(s, t, <<t>>) \in relationships[t]

\* the type the descendant pass is to give a child / a grandchild
ChildType(p) == IF gender[p] = "MALE" THEN "SON" ELSE "DAUGHTER"

GrandchildType(p) == IF gender[p] = "MALE" THEN "GRANDSON" ELSE "GRANDDAUGHTER"

HasRelative(type, p) ==
    type \in DOMAIN relationships /\ \E rel \in relationships[type] : rel.person = p

\* C17: while the descendant pass runs it records descendant types only; once
\* it has ended, every male or female child of the focal person is recorded
\* as SON or DAUGHTER and every male or female child of a child as GRANDSON
\* or GRANDDAUGHTER, by its own gender.
C17_DescendantTypes ==
    /\ tpc = "descendants" => DOMAIN relationships \subseteq DESCENDANT_RELATIONSHIPS
    /\ tpc \in {"ancestors", "spouses", "done"} =>
          /\ \A c \in children[Focal] :
                gender[c] # "UNKNOWN" => HasRelative(ChildType(c), c)
          /\ \A c \in children[Focal] : \A g \in children[c] :
                gender[g] # "UNKNOWN" => HasRelative(GrandchildType(g), g)

PaternalTokens ==
    {"FATHER", "PARENTAL_UNCLE_FULL", "PARENTAL_UNCLE_PARENTAL", "PARENTAL_UNCLE_MATERNAL",
     "PARENTAL_AUNT_FULL", "PARENTAL_AUNT_PARENTAL", "PARENTAL_AUNT_MATERNAL"}

MaternalTokens ==
    {"MOTHER", "MATERNAL_UNCLE_FULL", "MATERNAL_UNCLE_PARENTAL", "MATERNAL_UNCLE_MATERNAL",
     "MATERNAL_AUNT_FULL", "MATERNAL_AUNT_PARENTAL", "MATERNAL_AUNT_MATERNAL"}

\* no key and no lineage of the index starts on the given side
NoBranch(key, tokens) ==
    /\ key \notin DOMAIN relationships
    /\ \A rel \in Triples(relationships) :
          rel.lineage # <<>> => rel.lineage[1] \notin tokens

\* C18: in and after the ancestor pass, a focal person without a father has
\* no FATHER key and no lineage starting with FATHER or a paternal uncle or
\* aunt token, likewise without a mother; with neither parent an exception
\* comes from the descendant pass or the spouse loop, never from the
\* ancestor pass.
C18_MissingParentNoBranch ==
    tpc \in {"ancestors", "spouses", "done", "error"} =>
        /\ father[Focal] = NoPerson => NoBranch("FATHER", PaternalTokens)
        /\ mother[Focal] = NoPerson => NoBranch("MOTHER", MaternalTokens)
        /\ (father[Focal] = NoPerson /\ mother[Focal] = NoPerson /\ tpc = "error")
              => ("SELF" \notin DOMAIN relationships \/ spouse_iter # {})

C18_Witness ==
    /\ tpc = "done"
    /\ father[Focal] = NoPerson
    /\ mother[Focal] # NoPerson
    /\ \E rel \in Triples(relationships) :
          is_uncle_or_aunt(rel) /\ rel.lineage[1] \in MaternalTokens

\* C19 as stated: two Relationships with the same lineage are one element of
\* a set, so no set of the index holds two elements with the same lineage.
C19_OneElementPerLineage ==
    \A t \in DOMAIN relationships : \A r1, r2 \in relationships[t] :
        r1.lineage = r2.lineage => r1 = r2

\* C19 amended: the hash is the lineage's, equality is that of the fields
\* (person by value, type, lineage); no set of the index holds two elements
\* with the same lineage whose persons are equal.
C19_OneElementPerLineageAndPerson ==
    \A t \in DOMAIN relationships : \A r1, r2 \in relationships[t] :
        (r1.lineage = r2.lineage /\ PersonEq(r1.person, r2.person) = "T") => r1 = r2

\* two relatives with data of their own under one lineage in one set
C19_Witness ==
    /\ tpc = "done"
    /\ \E t \in DOMAIN relationships : \E r1, r2 \in relationships[t] :
          r1 # r2 /\ r1.lineage = r2.lineage

\* C20: once the tree is constructed, no call changes the index: its keys
\* and the set under each key stay as they are.
C20_IndexNeverChanged ==
    [][(tpc = "done" /\ tpc' = "done") => relationships' = relationships]_vars

(***************************************************************************)
(* The heir predicates.                                                    *)
(***************************************************************************)
\* the HeirType of the state the machine is in
HeirTypeNow == current_heir_type(current_state)

\* C21: for the HeirType of every state the machine reaches, is_fardh,
\* is_taasib, is_uterine and is_stranger are membership in the fixed sets of
\* the claim, so the nephews and the uncles' sons satisfy none of the four.
C21_PredicatesAreMembership ==
    LET h == HeirTypeNow
    IN  /\ IsFardh(h) <=> h \in {"HUSBAND", "WIFE", "FATHER", "MOTHER", "DAUGHTER",
                                 "SISTER_FULL", "SISTER_PARENTAL", "SISTER_MATERNAL",
                                 "BROTHER_MATERNAL"}
        /\ IsTaasib(h) <=> h \in {"FATHER", "SON", "BROTHER_FULL", "BROTHER_PARENTAL",
                                  "UNCLE_FULL", "UNCLE_PARENTAL"}
        /\ IsUterine(h) <=> h = "UTERINE"
        /\ IsStranger(h) <=> h = "STRANGER"
        /\ h \in {"NEPHEW_FULL", "NEPHEW_PARENTAL", "SON_UNCLE_FULL", "SON_UNCLE_PARENTAL"}
              => ~(IsFardh(h) \/ IsTaasib(h) \/ IsUterine(h) \/ IsStranger(h))

C21_Witness ==
    /\ hpc = "returned"
    /\ result = "SON_UNCLE_PARENTAL"
    /\ ~IsFardh(result) /\ ~IsTaasib(result) /\ ~IsUterine(result) /\ ~IsStranger(result)

(***************************************************************************)
(* Determinism of deduce_heir_type.                                        *)
(***************************************************************************)
\* C22: every run of deduce_heir_type on a token sequence is the one run a
\* fresh machine makes from SELF: each <<state, token>> pair has at most one
\* target, the state after each token, the HeirType returned and the error
\* raised are those of the sequence, so two runs on it end alike.
C22_Deterministic ==
    /\ \A tok \in RelationshipType : Cardinality(Targets(current_state, tok)) <= 1
    /\ Len(visited) >= 1 => visited[1] \in Targets("SELF", lineage[1])
    /\ hpc = "loop" => current_state = StateAfter(lineage, Len(lineage))
    /\ hpc = "returned" => result = deduce_heir_type(lineage)
    /\ hpc = "raised" => deduce_heir_type(lineage) = "TransitionNotAllowed"

C22_Witness ==
    /\ hpc = "returned"
    /\ lineage = <<"PARENTAL_UNCLE_MATERNAL", "SON", "DAUGHTER">>
    /\ result = "UTERINE"

(***************************************************************************)
(* Two classifications side by side.                                       *)
(***************************************************************************)
\* C23: however the token steps of two deduce_heir_type calls interleave,
\* each call is at every moment where it would be when run alone on its own
\* lineage, and ends in the HeirType or the error of that lineage: a step of
\* one call, an error included, changes nothing of the other.
C23_CallsDoNotInterfere ==
    /\ hpc = "loop" => current_state = StateAfter(lineage, Len(lineage))
    /\ hpc = "returned" => result = deduce_heir_type(lineage)
    /\ hpc = "raised" =>
          /\ deduce_heir_type(lineage) = "TransitionNotAllowed"
          /\ current_state = StateAfter(lineage, Len(lineage) - 1)
    /\ second.hpc = "loop" =>
          second.current_state = StateAfter(second.lineage, Len(second.lineage))
    /\ second.hpc = "returned" => second.result = deduce_heir_type(second.lineage)
    /\ second.hpc = "raised" =>
          /\ deduce_heir_type(second.lineage) = "TransitionNotAllowed"
          /\ second.current_state = StateAfter(second.lineage, Len(second.lineage) - 1)

C23_Witness ==
    /\ hpc = "raised"
    /\ lineage = <<"HUSBAND", "SON">>
    /\ second.hpc = "returned"
    /\ second.lineage = <<"FATHER", "PARENTAL_UNCLE_FULL">>
    /\ second.result = "UNCLE_FULL"

(***************************************************************************)
(* The relationship API of Person.                                         *)
(***************************************************************************)
\* C24: after any calls of add_father, add_mother and add_child, a person is
\* in the children set of its father and of its mother, and every member of
\* a children set has the owner of the set as its father or its mother.
C24_ParentChildBidirectional ==
    \A p \in people :
        /\ father[p] # NoPerson => p \in children[father[p]]
        /\ mother[p] # NoPerson => p \in children[mother[p]]
        /\ \A c \in children[p] : father[c] = p \/ mother[c] = p

\* C25: the father and the mother of a person, once set, stay the same
\* person for ever, and a call that raises ValueError leaves every father,
\* every mother and every children set as they were.
C25_ParentsNeverReplaced ==
    [][/\ \A c \in people :
             /\ father[c] # NoPerson => father'[c] = father[c]
             /\ mother[c] # NoPerson => mother'[c] = mother[c]
       /\ raised' = "ValueError" =>
             (father' = father /\ mother' = mother /\ children' = children)]_vars

\* C26: whatever add_spouse calls were made, those that raised included, no
\* female person has more than one spouse and no person has a spouse of its
\* own gender.
C26_SpouseRules ==
    \A p \in people :
        /\ gender[p] = "FEMALE" => Cardinality(spouses[p]) <= 1
        /\ \A s \in spouses[p] : gender[s] # gender[p]

(***************************************************************************)
(* The lineages of the index handed to the heir state machine.             *)
(***************************************************************************)
\* C27: on an acyclic graph every lineage that the construction has recorded
\* in the index is accepted by the heir state machine: deduce_heir_type on it
\* raises no TransitionNotAllowed.
C27_RecordedLineagesAccepted ==
    Acyclic =>
        \A rel \in Triples(relationships) :
            deduce_heir_type(rel.lineage) # "TransitionNotAllowed"

\* the lineage is the chain of SON/DAUGHTER tokens of the persons on a path
\* of child edges from a child of the focal person down to the person
RECURSIVE IsChainOfOwnGenders(_, _)
IsChainOfOwnGenders(person, chain) ==
    /\ chain # <<>>
    /\ Last(chain) = (IF gender[person] = "MALE" THEN "SON" ELSE "DAUGHTER")
    /\ IF Len(chain) = 1
       THEN person \in children[Focal]
       ELSE \E parent \in Parents(person) :
               IsChainOfOwnGenders(parent, SubSeq(chain, 1, Len(chain) - 1))

\* the relationships the descendant pass recorded
RecordedByDescendantPass ==
    UNION {relationships[t] : t \in DOMAIN relationships \cap DESCENDANT_RELATIONSHIPS}

\* C28: the lineage of every descendant the descendant pass recorded is the
\* chain of SON/DAUGHTER tokens of the persons on the path from the focal
\* person's child down to that descendant, each by the person's own gender
\* (a son's daughter has [SON, DAUGHTER], a son's son [SON, SON]).
C28_DescendantLineageOwnGenders ==
    \A rel \in RecordedByDescendantPass : IsChainOfOwnGenders(rel.person, rel.lineage)

(***************************************************************************)
(* The structural error and the builder's cycle check.                     *)
(***************************************************************************)
\* the person reaches itself along child edges
OnChildCycle(p) == p \in Descendants(children[p])

\* C29: the construction ends in the structural error only when the child
\* edges reachable from the focal person hold a cycle; on an acyclic graph,
\* a descendant reached by two child paths included, and on every graph the
\* builder's validate accepts, it does not.
C29_StructuralErrorOnlyOnCycle ==
    (tpc = "error" /\ raised = "ValueError") =>
        /\ \E p \in Descendants({Focal}) : OnChildCycle(p)
        /\ ~ValidateAccepts

(***************************************************************************)
(* The sibling classification table.                                       *)
(***************************************************************************)
\* C30: the lookup in the sibling classification table finds an entry for
\* every sibling of the focal person and of its ancestors, whatever its
\* gender, so on an acyclic graph the construction ends in no error other
\* than the structural ValueError.
C30_TableLookupTotal ==
    /\ raised # "KeyError"
    /\ (Acyclic /\ tpc = "error") => raised = "ValueError"

(***************************************************************************)
(* Agnatic heirs and the continuation of the nephews.                      *)
(***************************************************************************)
\* the HeirTypes related through an unbroken chain of male ancestors
AgnaticHeirTypes ==
    {"SON", "FATHER", "BROTHER_FULL", "BROTHER_PARENTAL", "UNCLE_FULL",
     "UNCLE_PARENTAL", "NEPHEW_FULL", "NEPHEW_PARENTAL", "SON_UNCLE_FULL",
     "SON_UNCLE_PARENTAL"}

\* the tokens that break the male chain: MOTHER, DAUGHTER, the sisters, the
\* aunts, the maternal uncles and every *_MATERNAL token
NonAgnaticTokens ==
    {"MOTHER", "DAUGHTER", "SISTER_FULL", "SISTER_PARENTAL", "SISTER_MATERNAL",
     "BROTHER_MATERNAL", "PARENTAL_UNCLE_MATERNAL",
     "PARENTAL_AUNT_FULL", "PARENTAL_AUNT_PARENTAL", "PARENTAL_AUNT_MATERNAL",
     "MATERNAL_UNCLE_FULL", "MATERNAL_UNCLE_PARENTAL", "MATERNAL_UNCLE_MATERNAL",
     "MATERNAL_AUNT_FULL", "MATERNAL_AUNT_PARENTAL", "MATERNAL_AUNT_MATERNAL"}

\* C32: whenever deduce_heir_type returns an agnatic HeirType (SON, FATHER,
\* a full or parental brother, uncle, nephew or uncle's son), the lineage it
\* consumed holds no MOTHER, DAUGHTER, sister, aunt, maternal-uncle or
\* *_MATERNAL token.
C32_AgnaticSoundness ==
    (hpc = "returned" /\ result \in AgnaticHeirTypes)
    => \A i \in DOMAIN lineage : lineage[i] \notin NonAgnaticTokens

C32_Witness ==
    /\ hpc = "returned"
    /\ result = "SON_UNCLE_FULL"
    /\ lineage = <<"FATHER", "FATHER", "PARENTAL_UNCLE_FULL", "SON", "SON">>

\* C36: after [BROTHER_FULL, SON] a further SON or DAUGHTER raises the
\* invalid-transition error and no HeirType is returned, whereas after
\* [BROTHER_PARENTAL, SON] a further SON keeps NEPHEW_PARENTAL and a further
\* DAUGHTER yields UTERINE.
C36_NephewFullEnds ==
    /\ \A tok \in {"SON", "DAUGHTER"} :
          /\ deduce_heir_type(<<"BROTHER_FULL", "SON", tok>>) = "TransitionNotAllowed"
          /\ (Len(lineage) >= 3 /\ SubSeq(lineage, 1, 3) = <<"BROTHER_FULL", "SON", tok>>)
             => /\ hpc = "raised"
                /\ result = None
                /\ current_state = "NEPHEW_FULL"
                /\ Len(lineage) = 3
    /\ (Len(lineage) = 2 /\ lineage = <<"BROTHER_FULL", "SON">> /\ hpc = "returned")
       => result = "NEPHEW_FULL"
    /\ (Len(lineage) = 3 /\ lineage = <<"BROTHER_PARENTAL", "SON", "SON">>)
       => /\ current_state = "NEPHEW_PARENTAL"
          /\ hpc # "raised"
          /\ hpc = "returned" => result = "NEPHEW_PARENTAL"
    /\ (Len(lineage) = 3 /\ lineage = <<"BROTHER_PARENTAL", "SON", "DAUGHTER">>)
       => /\ current_state = "UTERINE"
          /\ hpc # "raised"
          /\ hpc = "returned" => result = "UTERINE"

C36_Witness ==
    /\ lineage = <<"BROTHER_FULL", "SON", "SON">>
    /\ hpc = "raised"
    /\ current_state = "NEPHEW_FULL"

(***************************************************************************)
(* The uncles and aunts derived from an ancestor.                          *)
(***************************************************************************)
\* the relationships on the work stack
OnStack(stk) == UNION {stk[i] : i \in DOMAIN stk}

\* the relationships an iteration pushed after popping rel from stk
PushedAfter(stk, new_stk, rel) ==
    OnStack(SubSeq(new_stk, Len(Popped(stk, rel)) + 1, Len(new_stk)))

\* the other children of the person's father and mother
SiblingsOf(person) ==
    full_brothers(person) \cup parental_brothers(person) \cup maternal_brothers(person)

C33_ChildrenOfCollaterals ==
    [][\A rel \in (IF tpc = "ancestors" /\ stack # <<>> THEN TopBatch(stack) ELSE {}) :
          (rel.person \notin seen /\ rel.person \in seen')
          => LET pushed == PushedAfter(stack, stack', rel)
                 OwnToken(u) ==
                     /\ gender[u.person] = "MALE"
                        => u.lineage = Append(rel.lineage, "SON")
                     /\ gender[u.person] = "FEMALE"
                        => u.lineage = Append(rel.lineage, "DAUGHTER")
                     /\ Len(u.lineage) = Len(rel.lineage) + 1
                     /\ SubSeq(u.lineage, 1, Len(rel.lineage)) = rel.lineage
                     /\ u.lineage[Len(u.lineage)] \in {"SON", "DAUGHTER"}
             IN  /\ (is_sibling(rel) \/ is_nephew_or_niece(rel))
                    => /\ {u.person : u \in pushed} = children[rel.person]
                       /\ \A u \in pushed :
                             /\ gender[u.person] = "MALE" => u.relationship_type = "NEPHEW"
                             /\ gender[u.person] = "FEMALE" => u.relationship_type = "NIECE"
                             /\ u.relationship_type \in NephewNieceTypes
                             /\ OwnToken(u)
                 /\ (is_uncle_or_aunt(rel) \/ is_cousin(rel))
                    => /\ {u.person : u \in pushed} = children[rel.person]
                       /\ \A u \in pushed : u.relationship_type = "COUSIN" /\ OwnToken(u)
                 /\ (is_ancestor(rel) \/ rel.relationship_type = "SELF")
                    => \A u \in pushed :
                          u.relationship_type \notin NephewNieceTypes \cup {"COUSIN"}]_vars

\* a male cousin's daughter is on record with the cousin's lineage and DAUGHTER
C33_Witness ==
    /\ "COUSIN" \in DOMAIN relationships
    /\ \E u \in relationships["COUSIN"] :
          /\ Len(u.lineage) = 3
          /\ gender[u.person] = "FEMALE"
          /\ gender[father[u.person]] = "MALE"
          /\ u.lineage[3] = "DAUGHTER"
          /\ \E v \in relationships["COUSIN"] :
                v.person = father[u.person] /\ v.lineage = SubSeq(u.lineage, 1, 2)

(***************************************************************************)
(* The ancestors at depth 2 or more.                                       *)
(***************************************************************************)
\* the <<ancestor, tokens>> pairs of the father/mother pointer paths of at
\* most k pointers that start at the focal person
RECURSIVE PointerPaths(_)
PointerPaths(k) ==
    IF k = 0 THEN {<<Focal, <<>>>>}
    ELSE LET shorter == PointerPaths(k - 1)
         IN  shorter
             \cup {<<father[x[1]], Append(x[2], "FATHER")>> :
                     x \in {y \in shorter : father[y[1]] # NoPerson}}
             \cup {<<mother[x[1]], Append(x[2], "MOTHER")>> :
                     x \in {y \in shorter : mother[y[1]] # NoPerson}}

AncestorPaths == PointerPaths(Cardinality(people))

\* no person is reached by two pointer paths (so no path returns to a person)
PathsDoNotConverge == \A x, y \in AncestorPaths : x[1] = y[1] => x = y

\* C34: on a constructed tree whose ancestor paths do not converge, every
\* ancestor two or more pointers away is recorded as GRANDFATHER when the
\* last pointer is a father pointer and GRANDMOTHER when it is a mother
\* pointer, under no other ancestor type, with the tokens of its pointer
\* path as lineage; get_relatives returns it, so the paternal and the
\* maternal grandparents are both returned.
C34_DeepAncestorsRecorded ==
    (tpc = "done" /\ PathsDoNotConverge)
    => \A x \in AncestorPaths :
          Len(x[2]) >= 2
          => LET type == IF Last(x[2]) = "FATHER" THEN "GRANDFATHER" ELSE "GRANDMOTHER"
             IN  /\ type \in DOMAIN relationships
                 /\ Relationship(x[1], type, x[2]) \in relationships[type]
                 /\ x[1] \in get_relatives(relationships, type)
                 /\ \A t \in DOMAIN relationships \cap ANCESTOR_RELATIONSHIPS :
                       \A rel \in relationships[t] :
                           rel.person = x[1] => (t = type /\ rel.lineage = x[2])

C34_Witness ==
    /\ tpc = "done"
    /\ PathsDoNotConverge
    /\ \E x, y \in AncestorPaths :
          /\ x[2] = <<"FATHER", "FATHER">>
          /\ y[2] = <<"MOTHER", "FATHER">>
          /\ {x[1], y[1]} \subseteq get_relatives(relationships, "GRANDFATHER")

(***************************************************************************)
(* The focal person and the index.                                         *)
(***************************************************************************)
\* C35: on a constructed tree over an acyclic graph the index holds only
\* relatives of the focal person: it has no SELF key and the focal person is
\* the person of no relationship in it.
C35_FocalNotInIndex ==
    (tpc = "done" /\ Acyclic)
    => /\ "SELF" \notin DOMAIN relationships
       /\ \A rel \in Triples(relationships) : rel.person # Focal

====
